---- MODULE Spec2Model ----
(***************************************************************************)
(* A model of the requires side of the pgsql relation: pgsql/client.py.    *)
(*                                                                         *)
(* Python values are represented as follows.                               *)
(*   str            a sequence of one-character strings; "" is <<>>        *)
(*   None / value   an optional: None is <<>>, a value x is <<x>>          *)
(*   dict           a function whose DOMAIN is the set of keys present     *)
(*   list           a sequence                                             *)
(* A relation data bag is a dict from TLA+ string keys to non-empty str    *)
(* values: storing "" under a key removes the key. A participant (unit or  *)
(* application) is identified by its name, a str.                          *)
(***************************************************************************)
EXTENDS Integers, Sequences, FiniteSets, TLC

VARIABLES
    data,        \* relation id -> participant name -> bag   (relation.data)
    leaderData,  \* relation id -> dict                      (leader settings, LEADER_KEY)
    isLeader,    \* self.model.unit.is_leader()
    rels,        \* relation id -> record                    (self._state.rels)
    emitted,     \* the events emitted by the last notification handled, in order
    last,        \* the last notification handled and the locals its handler computed
    deferred     \* relation id -> number of deferred relation-changed notifications

vars == <<data, leaderData, isLeader, rels, emitted, last, deferred>>

---------------------------------------------------------------------------
(* Python values *)

None == <<>>

Some(x) == <<x>>

\* x or ""  for an optional str x
OrEmpty(o) == IF o = None THEN <<>> ELSE o[1]

\* bool(x) for an optional str or an optional list x
Truthy(o) == o # None /\ o[1] # <<>>

\* str(x) for an optional str x: str(None) is the four characters None
Str(o) == IF o = None THEN <<"N", "o", "n", "e">> ELSE o[1]

EmptyDict == [k \in {} |-> <<>>]

\* d.get(k)
Get(d, k) == IF k \in DOMAIN d THEN Some(d[k]) ELSE None

\* d.get(k, default)
GetOr(d, k, default) == IF k \in DOMAIN d THEN d[k] ELSE default

\* d[k] = v
Put(d, k, v) == [x \in (DOMAIN d) \cup {k} |-> IF x = k THEN v ELSE d[x]]

\* del d[k]
Del(d, k) == [x \in (DOMAIN d) \ {k} |-> d[x]]

\* bag[k] = v for a relation data bag: storing "" removes the key
Store(bag, k, v) == IF v = <<>> THEN Del(bag, k) ELSE Put(bag, k, v)

\* for k, v in src.items(): bag[k] = v  for a relation data bag
StoreAll(bag, src) ==
    [x \in ((DOMAIN bag) \ {k \in DOMAIN src : src[k] = <<>>})
               \cup {k \in DOMAIN src : src[k] # <<>>} |->
        IF x \in DOMAIN src THEN src[x] ELSE bag[x]]

ToSet(s) == {s[i] : i \in 1..Len(s)}

RECURSIVE Split(_, _)
\* s.split(c) for a one-character separator c: at least one item, empty items kept
Split(s, c) ==
    IF \E i \in 1..Len(s) : s[i] = c
    THEN LET i == CHOOSE i \in 1..Len(s) : s[i] = c /\ \A j \in 1..(i - 1) : s[j] # c
         IN  <<SubSeq(s, 1, i - 1)>> \o Split(SubSeq(s, i + 1, Len(s)), c)
    ELSE <<s>>

\* s.splitlines(): as split on the newline, without the empty item a final newline
\* (or the empty string) leaves
Splitlines(s) ==
    LET parts == Split(s, "\n")
    IN  IF parts[Len(parts)] = <<>> THEN SubSeq(parts, 1, Len(parts) - 1) ELSE parts

RECURSIVE Strip(_)
\* s.strip(): leading and trailing blanks removed
Strip(s) ==
    IF s # <<>> /\ s[1] = " " THEN Strip(Tail(s))
    ELSE IF s # <<>> /\ s[Len(s)] = " " THEN Strip(SubSeq(s, 1, Len(s) - 1))
    ELSE s

\* [x for x in xs if x]
NonEmpty(xs) == SelectSeq(xs, LAMBDA x : x # <<>>)

---------------------------------------------------------------------------
(* Participants and their names *)

LocalUnit == <<"c", "/", "0">>

RemoteApp == <<"p">>

RemoteUnit == <<"p", "/", "3">>

\* unit.app: the application a unit belongs to, named by the part before the slash
AppOf(u) == Split(u, "/")[1]

\* relation.data holds the local unit, the local application, the remote
\* application and the remote units
Participants == {LocalUnit, AppOf(LocalUnit), RemoteApp, RemoteUnit}

\* the code points of the characters that the sorted strs are made of
Code(c) ==
    CASE c = "," -> 44
      [] c = "/" -> 47
      [] c = "0" -> 48
      [] c = "3" -> 51
      [] c = "4" -> 52
      [] c = "a" -> 97
      [] c = "b" -> 98
      [] c = "c" -> 99
      [] c = "p" -> 112

RECURSIVE StrLess(_, _)
\* a < b for strs: lexicographic by code point
StrLess(a, b) ==
    IF b = <<>> THEN FALSE
    ELSE IF a = <<>> THEN TRUE
    ELSE IF a[1] # b[1] THEN Code(a[1]) < Code(b[1])
    ELSE StrLess(Tail(a), Tail(b))

RECURSIVE Sorted(_)
\* sorted(S) for a set of names
Sorted(S) ==
    IF S = {} THEN <<>>
    ELSE LET m == CHOOSE x \in S : \A y \in S \ {x} : StrLess(x, y)
         IN  <<m>> \o Sorted(S \ {m})

\* xs without its item at place i
Without(xs, i) == SubSeq(xs, 1, i - 1) \o SubSeq(xs, i + 1, Len(xs))

RECURSIVE SortedSeq(_)
\* sorted(xs) for a list of strs: repeated items are kept
SortedSeq(xs) ==
    IF xs = <<>> THEN <<>>
    ELSE LET i == CHOOSE i \in 1..Len(xs) : \A j \in 1..Len(xs) : ~StrLess(xs[j], xs[i])
         IN  <<xs[i]>> \o SortedSeq(Without(xs, i))

RECURSIVE Join(_, _)
\* c.join(xs) for a one-character separator c
Join(xs, c) ==
    IF xs = <<>> THEN <<>>
    ELSE IF Len(xs) = 1 THEN xs[1]
    ELSE xs[1] \o <<c>> \o Join(Tail(xs), c)

ConfigKeys == <<"database", "roles", "extensions">>

---------------------------------------------------------------------------
(* The connection string: pgsql/connstr.py *)

\* \s of the regular expression, for the characters of the model
IsSpace(c) == c \in {" ", "\n"}

\* \w of the regular expression, for the characters of the model
IsWord(c) == c \in {"a", "b", "c", "d", "f", "g", "m", "p", "0", "3", "4", "_"}

RECURSIVE Replace(_, _, _)
\* s.replace(old, new): the occurrences of old, from the left and not
\* overlapping, replaced by new
Replace(s, old, new) ==
    IF Len(s) < Len(old) THEN s
    ELSE IF SubSeq(s, 1, Len(old)) = old
    THEN new \o Replace(SubSeq(s, Len(old) + 1, Len(s)), old, new)
    ELSE <<s[1]>> \o Replace(Tail(s), old, new)

\* A faulty quote: a value with a space is not wrapped in single quotes.
quoteBare(x) ==
    Replace(Replace(Replace(x, <<"\\">>, <<"\\", "\\">>), <<"'">>, <<"\\", "'">>),
            <<"\n">>, <<" ">>)

\* quote(x) of ConnectionString.__init__
quote(x) ==
    LET q == Replace(Replace(Replace(x, <<"\\">>, <<"\\", "\\">>), <<"'">>, <<"\\", "'">>),
                     <<"\n">>, <<" ">>)
    IN  IF " " \in ToSet(q) THEN <<"'">> \o q \o <<"'">> ELSE q

\* A faulty dequote: the escaped backslashes are left as they are.
dequoteQuotesOnly(x) == Replace(x, <<"\\", "'">>, <<"'">>)

\* dequote(x) of ConnectionString.__init__
dequote(x) == Replace(Replace(x, <<"\\", "'">>, <<"'">>), <<"\\", "\\">>, <<"\\">>)

\* (\w+) from place i of s: the place after the longest run of word characters
WordEnd(s, i) ==
    CHOOSE j \in i..(Len(s) + 1) :
        /\ \A x \in i..(j - 1) : IsWord(s[x])
        /\ j = Len(s) + 1 \/ ~IsWord(s[j])

\* \s* from place i of s: the place after the longest run of blanks
SpaceEnd(s, i) ==
    CHOOSE j \in i..(Len(s) + 1) :
        /\ \A x \in i..(j - 1) : IsSpace(s[x])
        /\ j = Len(s) + 1 \/ ~IsSpace(s[j])

\* (\S*) from place i of s: the place after the longest run of non-blanks
NonSpaceEnd(s, i) ==
    CHOOSE j \in i..(Len(s) + 1) :
        /\ \A x \in i..(j - 1) : ~IsSpace(s[x])
        /\ j = Len(s) + 1 \/ IsSpace(s[j])

\* The match of the regular expression r at place i of s, None when there is
\* none: key, value (v1 or v2) and the place after the match. The key is a run
\* of word characters, followed by "=" with blanks around it; the value is
\* either quoted, the shortest text without a newline between a quote and a
\* quote that a blank or the end follows, or the longest run of non-blanks.
MatchAt(s, i) ==
    LET k == WordEnd(s, i)
        e == SpaceEnd(s, k)
        v == SpaceEnd(s, e + 1)
        closing == {q \in (v + 1)..Len(s) :
                       /\ s[q] = "'"
                       /\ q = Len(s) \/ IsSpace(s[q + 1])
                       /\ \A j \in (v + 1)..(q - 1) : s[j] # "\n"}
        q == CHOOSE q \in closing : \A x \in closing : q <= x
        w == NonSpaceEnd(s, v)
    IN  IF k = i \/ e > Len(s) \/ s[e] # "=" THEN None
        ELSE IF v <= Len(s) /\ s[v] = "'" /\ closing # {}
        THEN Some([key |-> SubSeq(s, i, k - 1), value |-> SubSeq(s, v + 1, q - 1), end |-> q + 1])
        ELSE Some([key |-> SubSeq(s, i, k - 1), value |-> SubSeq(s, v, w - 1), end |-> w])

RECURSIVE findallFrom(_, _)
\* r.findall(conn_str), from place i on: the matches from the left, not
\* overlapping
findallFrom(s, i) ==
    IF i > Len(s) THEN <<>>
    ELSE LET m == MatchAt(s, i)
         IN  IF m = None THEN findallFrom(s, i + 1)
             ELSE <<m[1]>> \o findallFrom(s, m[1].end)

\* r.findall(conn_str)
findall(s) == findallFrom(s, 1)

RECURSIVE Parsed(_, _)
\* lines 129-131: kw after the loop over the matches; a key that kw holds is
\* left alone
Parsed(ms, kw) ==
    IF ms = <<>> THEN kw
    ELSE Parsed(Tail(ms),
                IF ms[1].key \in DOMAIN kw THEN kw
                ELSE Put(kw, ms[1].key, dequote(ms[1].value)))

\* line 133: the items that are joined, one for each key of kw with a value
\* that is not empty, in the order of the keys, with the quoted value
FormatItems(kw) ==
    LET keys == Sorted({k \in DOMAIN kw : kw[k] # <<>>})
    IN  [i \in 1..Len(keys) |-> [key |-> keys[i], text |-> quote(kw[keys[i]])]]

\* line 133: " ".join("{}={}".format(k, quote(v)) ...)
Format(kw) ==
    LET items == FormatItems(kw)
    IN  Join([i \in 1..Len(items) |-> items[i].key \o <<"=">> \o items[i].text], " ")

\* ConnectionString(conn_str, **kw): the attributes and the conn_str of the
\* object; conn_str is an optional
ConnectionString(conn_str, kw) ==
    LET all == IF conn_str = None THEN kw ELSE Parsed(findall(conn_str[1]), kw)
    IN  [kw |-> all, conn_str |-> Format(all)]

\* ConnectionString.__eq__
ConnectionStringEq(a, b) == a.conn_str = b.conn_str

---------------------------------------------------------------------------
(* Readiness and the endpoint resolver *)

\* A faulty _csplit: the items are not stripped.
_csplitNoStrip(s) ==
    IF Truthy(s) THEN NonEmpty(Split(s[1], ",")) ELSE <<>>

\* _csplit(s) for an optional str s: the stripped, non-empty comma-separated items
_csplit(s) ==
    IF Truthy(s)
    THEN LET parts == Split(s[1], ",")
         IN  NonEmpty([i \in 1..Len(parts) |-> Strip(parts[i])])
    ELSE <<>>

\* A faulty _is_ready: of the three keys only the database is compared.
_is_readyDatabaseOnly(appdata, locdata, reldata) ==
    /\ OrEmpty(Get(reldata, "database")) = OrEmpty(Get(appdata, "database"))
    /\ ToSet(_csplit(Get(locdata, "egress-subnets")))
           \subseteq ToSet(_csplit(Get(reldata, "allowed-subnets")))

\* _is_ready(log, appdata, locdata, reldata)
_is_ready(appdata, locdata, reldata) ==
    /\ \A i \in 1..Len(ConfigKeys) :
           OrEmpty(Get(reldata, ConfigKeys[i])) = OrEmpty(Get(appdata, ConfigKeys[i]))
    /\ ToSet(_csplit(Get(locdata, "egress-subnets")))
           \subseteq ToSet(_csplit(Get(reldata, "allowed-subnets")))

\* _get_pgsql_leader_data().get(relation.id, {})
LeaderRecord(lead, relid) == GetOr(lead, relid, EmptyDict)

\* A faulty ScanOrder: the bag of the local application is scanned with the
\* others.
ScanOrderAll(reldata, local_unit) == Sorted(DOMAIN reldata)

\* sorted((k.name, v) for k, v in relation.data.items() if k != local_unit.app):
\* the names scanned, in order; reldata[name] is the bag that goes with a name
ScanOrder(reldata, local_unit) == Sorted((DOMAIN reldata) \ {AppOf(local_unit)})

RECURSIVE FirstReadyStops(_, _, _, _, _)
\* A faulty FirstReady: the scan ends at the first bag that holds a value,
\* ready or not.
FirstReadyStops(names, key, appdata, locdata, reldata) ==
    IF names = <<>> THEN None
    ELSE LET v == Get(reldata[Head(names)], key)
         IN  IF Truthy(v)
             THEN IF _is_ready(appdata, locdata, reldata[Head(names)]) THEN v ELSE None
             ELSE FirstReadyStops(Tail(names), key, appdata, locdata, reldata)

\* A faulty _standbys: the standbys of every ready bag of the scan are returned.
_standbysMerged(lead, relid, reldata, local_unit) ==
    LET names == Sorted((DOMAIN reldata) \ {AppOf(local_unit)})
        lines(p) ==
            IF /\ Truthy(Get(reldata[p], "standbys"))
               /\ _is_ready(GetOr(lead, relid, EmptyDict), reldata[local_unit], reldata[p])
            THEN NonEmpty(Splitlines(reldata[p]["standbys"]))
            ELSE <<>>
    IN  lines(names[1]) \o lines(names[2]) \o lines(names[3])

RECURSIVE FirstReady(_, _, _, _, _)
\* The loop shared by _master and _standbys: the value under key of the first
\* bag of the scan that holds a non-empty value there and is ready, or None.
FirstReady(names, key, appdata, locdata, reldata) ==
    IF names = <<>> THEN None
    ELSE LET v == Get(reldata[Head(names)], key)
         IN  IF Truthy(v) /\ _is_ready(appdata, locdata, reldata[Head(names)])
             THEN v
             ELSE FirstReady(Tail(names), key, appdata, locdata, reldata)

\* _master(log, relation, local_unit): reldata is relation.data, lead the leader data
_master(lead, relid, reldata, local_unit) ==
    FirstReady(ScanOrder(reldata, local_unit), "master",
               LeaderRecord(lead, relid), reldata[local_unit], reldata)

\* _standbys(log, relation, local_unit)
_standbys(lead, relid, reldata, local_unit) ==
    LET raw == FirstReady(ScanOrder(reldata, local_unit), "standbys",
                          LeaderRecord(lead, relid), reldata[local_unit], reldata)
    IN  IF raw = None THEN <<>> ELSE NonEmpty(Splitlines(raw[1]))

---------------------------------------------------------------------------
(* The shared-configuration mirror *)

\* the new_lead_data that _mirror_appdata and _on_upgrade_charm build: for every
\* relation, the three keys of the application bag, "" where absent
AppConfig(d, app) ==
    [r \in DOMAIN d |->
        [k \in ToSet(ConfigKeys) |-> GetOr(d[r][app], k, <<>>)]]

\* A faulty _mirror_appdata: the leader does not write its unit bag.
_mirror_appdataNoUnit(u, leader, d, lead) ==
    LET new_lead_data == AppConfig(d, AppOf(u))
        rewrite_lead_data ==
            leader /\ \E r \in DOMAIN d, k \in ToSet(ConfigKeys) :
                          Get(LeaderRecord(lead, r), k) # Some(new_lead_data[r][k])
    IN  [data |-> [r \in DOMAIN d |->
                      [d[r] EXCEPT ![u] =
                          IF leader THEN @ ELSE StoreAll(@, LeaderRecord(lead, r))]],
         lead |-> IF rewrite_lead_data THEN new_lead_data ELSE lead]

\* A faulty _mirror_appdata: a unit that is not the leader replaces its unit
\* bag by the relation's leader data.
_mirror_appdataReplaces(u, leader, d, lead) ==
    LET new_lead_data == AppConfig(d, AppOf(u))
        rewrite_lead_data ==
            leader /\ \E r \in DOMAIN d, k \in ToSet(ConfigKeys) :
                          Get(LeaderRecord(lead, r), k) # Some(new_lead_data[r][k])
    IN  [data |-> [r \in DOMAIN d |->
                      [d[r] EXCEPT ![u] =
                          IF leader THEN StoreAll(@, new_lead_data[r])
                          ELSE StoreAll(EmptyDict, LeaderRecord(lead, r))]],
         lead |-> IF rewrite_lead_data THEN new_lead_data ELSE lead]

\* A faulty _mirror_appdata: the leader stores new_lead_data whether a value
\* differs from the leader data or not.
_mirror_appdataAlwaysWrites(u, leader, d, lead) ==
    LET new_lead_data == AppConfig(d, AppOf(u))
    IN  [data |-> [r \in DOMAIN d |->
                      [d[r] EXCEPT ![u] =
                          IF leader THEN StoreAll(@, new_lead_data[r])
                          ELSE StoreAll(@, LeaderRecord(lead, r))]],
         lead |-> IF leader THEN new_lead_data ELSE lead]

\* A faulty _mirror_appdata: a unit that is not the leader leaves its unit bag
\* as it was.
_mirror_appdataLeaderOnly(u, leader, d, lead) ==
    LET new_lead_data == AppConfig(d, AppOf(u))
        rewrite_lead_data ==
            leader /\ \E r \in DOMAIN d, k \in ToSet(ConfigKeys) :
                          Get(LeaderRecord(lead, r), k) # Some(new_lead_data[r][k])
    IN  [data |-> [r \in DOMAIN d |->
                      [d[r] EXCEPT ![u] =
                          IF leader THEN StoreAll(@, new_lead_data[r]) ELSE @]],
         lead |-> IF rewrite_lead_data THEN new_lead_data ELSE lead]

\* _mirror_appdata(self) run by unit u: the relation data and the leader data
\* it leaves. The leader copies the application bag's three keys to its unit bag
\* and, when a value differs from the leader data, stores them all as the leader
\* data; a non-leader copies the relation's leader data to its unit bag.
_mirror_appdata(u, leader, d, lead) ==
    LET new_lead_data == AppConfig(d, AppOf(u))
        rewrite_lead_data ==
            leader /\ \E r \in DOMAIN d, k \in ToSet(ConfigKeys) :
                          Get(LeaderRecord(lead, r), k) # Some(new_lead_data[r][k])
    IN  [data |-> [r \in DOMAIN d |->
                      [d[r] EXCEPT ![u] =
                          StoreAll(@, IF leader THEN new_lead_data[r]
                                              ELSE LeaderRecord(lead, r))]],
         lead |-> IF rewrite_lead_data THEN new_lead_data ELSE lead]

---------------------------------------------------------------------------
(* The relation configuration: the database, roles and extensions properties *)

\* The database property read (lines 89-96): the leader data's database of the
\* relation, None when it is absent or empty.
database(lead, relid) ==
    LET appdata == LeaderRecord(lead, relid)
    IN  IF Truthy(Get(appdata, "database")) THEN Get(appdata, "database") ELSE None

\* The roles and the extensions properties read (lines 130-137, 164-172): the
\* non-empty comma-separated items of the leader data's value under key.
NameList(lead, relid, key) ==
    LET appdata == LeaderRecord(lead, relid)
        sroles == OrEmpty(Get(appdata, key))
    IN  NonEmpty(Split(sroles, ","))

roles(lead, relid) == NameList(lead, relid, "roles")

extensions(lead, relid) == NameList(lead, relid, "extensions")

\* The str a setter stores for its argument, an optional: None becomes "" for
\* the database, and the sorted names joined by commas for the other two.
DatabaseValue(dbname) == OrEmpty(dbname)

NamesValue(names) == Join(SortedSeq(OrEmpty(names)), ",")

\* A faulty SetConfig: the relation's leader data is replaced by the key alone.
SetConfigResets(u, d, lead, relid, key, value) ==
    [data |-> [d EXCEPT ![relid] = [@ EXCEPT ![AppOf(u)] = Store(@, key, value),
                                             ![u] = Store(@, key, value)]],
     lead |-> Put(lead, relid, Put(EmptyDict, key, value))]

\* A faulty SetConfig: the leader data is left as it was.
SetConfigNoLeaderData(u, d, lead, relid, key, value) ==
    [data |-> [d EXCEPT ![relid] = [@ EXCEPT ![AppOf(u)] = Store(@, key, value),
                                             ![u] = Store(@, key, value)]],
     lead |-> lead]

\* The three writes of a setter run by unit u (lines 101-107, 142-148, 177-183):
\* the application bag, the unit bag, and the key of the relation's leader data.
SetConfig(u, d, lead, relid, key, value) ==
    [data |-> [d EXCEPT ![relid] = [@ EXCEPT ![AppOf(u)] = Store(@, key, value),
                                             ![u] = Store(@, key, value)]],
     lead |-> Put(lead, relid, Put(LeaderRecord(lead, relid), key, value))]

---------------------------------------------------------------------------
(* The relation state machine *)

\* the cap on the deferred relation-changed notifications kept per relation
MaxDeferred == 1

RelIds == {1, 2}

\* the relations whose remote side publishes data
DataRels == {1}

\* the remote participants that publish data
RemoteWriters == {RemoteApp}

\* the values the remote side publishes under each key
Published ==
    [master   |-> {<<"N", "o", "n", "e">>, <<"m">>},
     standbys |-> {<<"\n">>, <<"a">>, <<"a", "\n", "b">>},
     database |-> {<<"f">>}]

\* no notification handled: the state between a change of the data and the
\* next notification; again tells that the notification handled before the
\* last one was of the same kind
Idle ==
    [op |-> "none", rel |-> 0, had |-> FALSE, retry |-> FALSE, again |-> FALSE,
     prev_master |-> None, prev_standbys |-> <<>>,
     new_master |-> None, new_standbys |-> <<>>,
     arg |-> None, error |-> FALSE, ready |-> FALSE]

\* A faulty ChangedEvents: the masters are compared as they are, not through str().
ChangedEventsRawCompare(prev_master, prev_standbys, new_master, new_standbys) ==
    LET master_available == prev_master = None /\ new_master # None
        master_changed == prev_master # new_master
        master_gone == prev_master # None /\ new_master = None
        standby_available == prev_standbys = <<>> /\ new_standbys # <<>>
        standby_changed == prev_standbys # new_standbys
        standby_gone == prev_standbys # <<>> /\ new_standbys = <<>>
        when(c, e) == IF c THEN <<e>> ELSE <<>>
    IN  when(master_available, "master_available")
        \o when(master_changed, "master_changed")
        \o when(master_gone, "master_gone")
        \o when(standby_available, "standby_available")
        \o when(standby_changed, "standby_changed")
        \o when(standby_gone, "standby_gone")
        \o when(master_available \/ standby_available, "database_available")
        \o when(master_changed \/ standby_changed, "database_changed")
        \o when(new_master = None /\ new_standbys = <<>> /\ (master_gone \/ standby_gone),
                "database_gone")

\* A faulty ChangedEvents: database_gone is emitted whenever the master or the
\* standbys went, whatever remains.
ChangedEventsGoneAny(prev_master, prev_standbys, new_master, new_standbys) ==
    LET master_available == prev_master = None /\ new_master # None
        master_changed == Str(prev_master) # Str(new_master)
        master_gone == prev_master # None /\ new_master = None
        standby_available == prev_standbys = <<>> /\ new_standbys # <<>>
        standby_changed == prev_standbys # new_standbys
        standby_gone == prev_standbys # <<>> /\ new_standbys = <<>>
        when(c, e) == IF c THEN <<e>> ELSE <<>>
    IN  when(master_available, "master_available")
        \o when(master_changed, "master_changed")
        \o when(master_gone, "master_gone")
        \o when(standby_available, "standby_available")
        \o when(standby_changed, "standby_changed")
        \o when(standby_gone, "standby_gone")
        \o when(master_available \/ standby_available, "database_available")
        \o when(master_changed \/ standby_changed, "database_changed")
        \o when(master_gone \/ standby_gone, "database_gone")

\* A faulty ChangedEvents: database_gone is emitted when the master or the
\* standbys went and one of the two is absent afterwards.
ChangedEventsGoneEither(prev_master, prev_standbys, new_master, new_standbys) ==
    LET master_available == prev_master = None /\ new_master # None
        master_changed == Str(prev_master) # Str(new_master)
        master_gone == prev_master # None /\ new_master = None
        standby_available == prev_standbys = <<>> /\ new_standbys # <<>>
        standby_changed == prev_standbys # new_standbys
        standby_gone == prev_standbys # <<>> /\ new_standbys = <<>>
        database_available == master_available \/ standby_available
        database_changed == master_changed \/ standby_changed
        database_gone == master_gone \/ standby_gone
        when(c, e) == IF c THEN <<e>> ELSE <<>>
    IN  when(master_available, "master_available")
        \o when(master_changed, "master_changed")
        \o when(master_gone, "master_gone")
        \o when(standby_available, "standby_available")
        \o when(standby_changed, "standby_changed")
        \o when(standby_gone, "standby_gone")
        \o when(database_available, "database_available")
        \o when(database_changed, "database_changed")
        \o when((new_master = None \/ new_standbys = <<>>) /\ database_gone, "database_gone")

\* A faulty ChangedEvents: the database events are emitted before the master and
\* the standby events.
ChangedEventsDatabaseFirst(prev_master, prev_standbys, new_master, new_standbys) ==
    LET master_available == prev_master = None /\ new_master # None
        master_changed == Str(prev_master) # Str(new_master)
        master_gone == prev_master # None /\ new_master = None
        standby_available == prev_standbys = <<>> /\ new_standbys # <<>>
        standby_changed == prev_standbys # new_standbys
        standby_gone == prev_standbys # <<>> /\ new_standbys = <<>>
        database_available == master_available \/ standby_available
        database_changed == master_changed \/ standby_changed
        database_gone == master_gone \/ standby_gone
        when(c, e) == IF c THEN <<e>> ELSE <<>>
    IN  when(database_available, "database_available")
        \o when(database_changed, "database_changed")
        \o when(new_master = None /\ new_standbys = <<>> /\ database_gone, "database_gone")
        \o when(master_available, "master_available")
        \o when(master_changed, "master_changed")
        \o when(master_gone, "master_gone")
        \o when(standby_available, "standby_available")
        \o when(standby_changed, "standby_changed")
        \o when(standby_gone, "standby_gone")

\* The events _on_changed emits, in order, for the stored and the resolved
\* master and standbys; the three flags are the code's database_available,
\* database_changed and database_gone.
ChangedEvents(prev_master, prev_standbys, new_master, new_standbys) ==
    LET master_available == prev_master = None /\ new_master # None
        master_changed == Str(prev_master) # Str(new_master)
        master_gone == prev_master # None /\ new_master = None
        standby_available == prev_standbys = <<>> /\ new_standbys # <<>>
        standby_changed == prev_standbys # new_standbys
        standby_gone == prev_standbys # <<>> /\ new_standbys = <<>>
        database_available == master_available \/ standby_available
        database_changed == master_changed \/ standby_changed
        database_gone == master_gone \/ standby_gone
        when(c, e) == IF c THEN <<e>> ELSE <<>>
    IN  when(master_available, "master_available")
        \o when(master_changed, "master_changed")
        \o when(master_gone, "master_gone")
        \o when(standby_available, "standby_available")
        \o when(standby_changed, "standby_changed")
        \o when(standby_gone, "standby_gone")
        \o when(database_available, "database_available")
        \o when(database_changed, "database_changed")
        \o when(new_master = None /\ new_standbys = <<>> /\ database_gone, "database_gone")

\* A faulty BrokenEvents: each Gone event comes before its Changed event.
BrokenEventsGoneFirst(rd) ==
    LET master == Truthy(GetOr(rd, "master", None))
        standbys == Truthy(GetOr(rd, "standbys", None))
    IN  (IF master THEN <<"master_gone", "master_changed">> ELSE <<>>)
        \o (IF standbys THEN <<"standby_gone", "standby_changed">> ELSE <<>>)
        \o (IF master \/ standbys THEN <<"database_gone", "database_changed">> ELSE <<>>)
        \o <<"database_relation_broken">>

\* A faulty BrokenEvents: the database events are emitted whatever the record held.
BrokenEventsAlwaysGone(rd) ==
    LET master == Truthy(GetOr(rd, "master", None))
        standbys == Truthy(GetOr(rd, "standbys", None))
    IN  (IF master THEN <<"master_changed", "master_gone">> ELSE <<>>)
        \o (IF standbys THEN <<"standby_changed", "standby_gone">> ELSE <<>>)
        \o <<"database_changed", "database_gone">>
        \o <<"database_relation_broken">>

\* A faulty BrokenEvents: the Gone events of the master and the standbys are
\* left out.
BrokenEventsNoGone(rd) ==
    LET master == Truthy(GetOr(rd, "master", None))
        standbys == Truthy(GetOr(rd, "standbys", None))
    IN  (IF master THEN <<"master_changed">> ELSE <<>>)
        \o (IF standbys THEN <<"standby_changed">> ELSE <<>>)
        \o (IF master \/ standbys THEN <<"database_changed", "database_gone">> ELSE <<>>)
        \o <<"database_relation_broken">>

\* The events _on_broken emits, in order, for the record rd (a dict, {} when the
\* relation has none).
BrokenEvents(rd) ==
    LET master == Truthy(GetOr(rd, "master", None))
        standbys == Truthy(GetOr(rd, "standbys", None))
    IN  (IF master THEN <<"master_changed", "master_gone">> ELSE <<>>)
        \o (IF standbys THEN <<"standby_changed", "standby_gone">> ELSE <<>>)
        \o (IF master \/ standbys THEN <<"database_changed", "database_gone">> ELSE <<>>)
        \o <<"database_relation_broken">>

\* _on_joined, lines 365-370: the events emitted for the records rs
JoinedEvents(rs, relid) ==
    IF relid \in DOMAIN rs THEN <<>> ELSE <<"database_relation_joined">>

\* A faulty JoinedRels: the record is created anew on every relation-joined.
JoinedRelsReset(rs, relid) == Put(rs, relid, [master |-> None, standbys |-> None])

\* _on_joined, lines 365-370: the records left
JoinedRels(rs, relid) ==
    IF relid \in DOMAIN rs THEN rs ELSE Put(rs, relid, [master |-> None, standbys |-> None])

\* _on_joined(self, event) for relation relid
_on_joined(relid) ==
    \E m \in {_mirror_appdata(LocalUnit, isLeader, data, leaderData)} :
        /\ data' = m.data
        /\ leaderData' = m.lead
        /\ emitted' = JoinedEvents(rels, relid)
        /\ rels' = JoinedRels(rels, relid)
        /\ last' = [Idle EXCEPT !.op = "joined", !.rel = relid, !.had = relid \in DOMAIN rels]
        /\ UNCHANGED <<isLeader, deferred>>

\* A faulty ChangedDeferred: the mirror runs before the record is looked for.
ChangedDeferredMirrors(relid, pending) ==
    \E m \in {_mirror_appdata(LocalUnit, isLeader, data, leaderData)} :
        /\ data' = m.data
        /\ leaderData' = m.lead
        /\ deferred' = [deferred EXCEPT ![relid] = pending + 1]
        /\ emitted' = <<>>
        /\ last' = [Idle EXCEPT !.op = "changed", !.rel = relid, !.retry = TRUE]
        /\ UNCHANGED <<isLeader, rels>>

\* _on_changed, lines 382-387: no record of the relation, the notification is
\* deferred; pending is the number of this relation's other deferred notifications
ChangedDeferred(relid, pending) ==
    /\ deferred' = [deferred EXCEPT ![relid] = pending + 1]
    /\ emitted' = <<>>
    /\ last' = [Idle EXCEPT !.op = "changed", !.rel = relid, !.retry = TRUE]
    /\ UNCHANGED <<data, leaderData, isLeader, rels>>

\* A faulty StoredRecord: the master is not stored.
StoredRecordNoMaster(new_master, new_standbys) ==
    [master |-> None, standbys |-> Some(new_standbys)]

\* A faulty StoredRecord: the standbys are not stored.
StoredRecordNoStandbys(new_master, new_standbys) ==
    [master |-> new_master, standbys |-> None]

\* _on_changed, lines 443-444: the record stored
StoredRecord(new_master, new_standbys) ==
    [master |-> new_master, standbys |-> Some(new_standbys)]

\* _on_changed, lines 389-444: the relation has a record
ChangedProcessed(relid, pending) ==
    \E m \in {_mirror_appdata(LocalUnit, isLeader, data, leaderData)} :
    \E prev_master \in {rels[relid].master} :
    \E prev_standbys \in {OrEmpty(rels[relid].standbys)} :
    \E new_master \in {_master(m.lead, relid, m.data[relid], LocalUnit)} :
    \E new_standbys \in {_standbys(m.lead, relid, m.data[relid], LocalUnit)} :
        /\ data' = m.data
        /\ leaderData' = m.lead
        /\ emitted' = ChangedEvents(prev_master, prev_standbys, new_master, new_standbys)
        /\ rels' = [rels EXCEPT ![relid] = StoredRecord(new_master, new_standbys)]
        /\ deferred' = [deferred EXCEPT ![relid] = pending]
        /\ last' = [Idle EXCEPT !.op = "changed", !.rel = relid, !.had = TRUE,
                                !.prev_master = prev_master,
                                !.prev_standbys = prev_standbys,
                                !.new_master = new_master,
                                !.new_standbys = new_standbys]
        /\ UNCHANGED isLeader

\* A faulty _on_changed: a relation-changed that is delivered again is deferred
\* again, record or not.
_on_changedDefersAgain(relid, pending) ==
    IF relid \notin DOMAIN rels \/ pending < deferred[relid]
    THEN ChangedDeferred(relid, pending)
    ELSE ChangedProcessed(relid, pending)

\* _on_changed(self, event) for relation relid
_on_changed(relid, pending) ==
    IF relid \notin DOMAIN rels
    THEN ChangedDeferred(relid, pending)
    ELSE ChangedProcessed(relid, pending)

\* A faulty BrokenRels: the record is kept.
BrokenRelsKeep(rs, relid) == rs

\* _on_broken, lines 498-500: the records left
BrokenRels(rs, relid) == IF relid \in DOMAIN rs THEN Del(rs, relid) ELSE rs

\* _on_broken(self, event) for relation relid
_on_broken(relid) ==
    \E rd \in {GetOr(rels, relid, EmptyDict)} :
        /\ emitted' = BrokenEvents(rd)
        /\ rels' = BrokenRels(rels, relid)
        /\ last' = [Idle EXCEPT !.op = "broken", !.rel = relid, !.had = relid \in DOMAIN rels,
                                !.prev_master = GetOr(rd, "master", None),
                                !.prev_standbys = OrEmpty(GetOr(rd, "standbys", None))]
        /\ UNCHANGED <<data, leaderData, isLeader, deferred>>

\* A faulty SetterOutcome: the unit bag is left as it was.
SetterOutcomeNoUnit(leader, u, d, lead, relid, key, value) ==
    IF leader
    THEN [data |-> [d EXCEPT ![relid] = [@ EXCEPT ![AppOf(u)] = Store(@, key, value)]],
          lead |-> Put(lead, relid, Put(LeaderRecord(lead, relid), key, value)),
          error |-> FALSE]
    ELSE [data |-> d, lead |-> lead, error |-> TRUE]

\* A faulty SetterOutcome: a unit that is not the leader is refused only after
\* the bags were written.
SetterOutcomeLate(leader, u, d, lead, relid, key, value) ==
    IF leader
    THEN [data |-> SetConfig(u, d, lead, relid, key, value).data,
          lead |-> SetConfig(u, d, lead, relid, key, value).lead,
          error |-> FALSE]
    ELSE [data |-> SetConfig(u, d, lead, relid, key, value).data,
          lead |-> lead, error |-> TRUE]

\* What a setter run by unit u leaves: the leader's three writes go through; for
\* any other unit the first of them, to the application bag, raises
\* RelationDataError and nothing is written.
SetterOutcome(leader, u, d, lead, relid, key, value) ==
    IF leader
    THEN [data |-> SetConfig(u, d, lead, relid, key, value).data,
          lead |-> SetConfig(u, d, lead, relid, key, value).lead,
          error |-> FALSE]
    ELSE [data |-> d, lead |-> lead, error |-> TRUE]

\* a setter of an event of relation relid is given arg and stores value under key
Setter(op, relid, key, arg, value) ==
    \E w \in {SetterOutcome(isLeader, LocalUnit, data, leaderData, relid, key, value)} :
        /\ data' = w.data
        /\ leaderData' = w.lead
        /\ emitted' = <<>>
        /\ last' = [Idle EXCEPT !.op = op, !.rel = relid, !.arg = arg, !.error = w.error]
        /\ UNCHANGED <<isLeader, rels, deferred>>

\* event.database = dbname, dbname an optional str
database_setter(relid, dbname) ==
    Setter("database", relid, "database", dbname, DatabaseValue(dbname))

\* event.roles = names, names an optional list of strs
roles_setter(relid, names) ==
    Setter("roles", relid, "roles", names, NamesValue(names))

\* event.extensions = names
extensions_setter(relid, names) ==
    Setter("extensions", relid, "extensions", names, NamesValue(names))

\* _on_leader_change(self, event), the handler of leader-elected and of
\* leader-settings-changed; op names the notification
_on_leader_change(op) ==
    \E m \in {_mirror_appdata(LocalUnit, isLeader, data, leaderData)} :
        /\ data' = m.data
        /\ leaderData' = m.lead
        /\ emitted' = <<>>
        /\ last' = [Idle EXCEPT !.op = op]
        /\ UNCHANGED <<isLeader, rels, deferred>>

\* A faulty UpgradeMigration: every one of the three keys that the unit bag
\* holds is copied, whether the application bag holds the key or not.
UpgradeMigrationOverwrites(u, d) ==
    [r \in DOMAIN d |->
        LET ldata == d[r][u]
            adata == d[r][AppOf(u)]
            migrated == {k \in ToSet(ConfigKeys) : k \in DOMAIN ldata}
        IN  [d[r] EXCEPT ![AppOf(u)] =
                [k \in (DOMAIN adata) \cup migrated |->
                    IF k \in migrated THEN ldata[k] ELSE adata[k]]]]

\* _on_upgrade_charm, lines 509-521: the relation data the leader's migration
\* leaves; each of the three keys that the unit bag of u holds and the
\* application bag lacks is copied to the application bag
UpgradeMigration(u, d) ==
    [r \in DOMAIN d |->
        LET ldata == d[r][u]
            adata == d[r][AppOf(u)]
            migrated == {k \in ToSet(ConfigKeys) : k \in DOMAIN ldata /\ k \notin DOMAIN adata}
        IN  [d[r] EXCEPT ![AppOf(u)] =
                [k \in (DOMAIN adata) \cup migrated |->
                    IF k \in migrated THEN ldata[k] ELSE adata[k]]]]

\* A faulty UpgradeLeaderData: the leader data is built from the application
\* bags as they were before the migration.
UpgradeLeaderDataStale(u, d) == AppConfig(d, AppOf(u))

\* _on_upgrade_charm, lines 509-522: the new_lead_data the leader stores, the
\* three keys of every relation's application bag after the migration
UpgradeLeaderData(u, d) == AppConfig(UpgradeMigration(u, d), AppOf(u))

\* the place, in deferred, of the deferred upgrade-charm notifications
UpgradeSlot == 0

\* A faulty _on_upgrade_charm: a unit that is not the leader runs the mirror
\* and never defers, whether there is leader data or not.
_on_upgrade_charmNoDefer(pending) ==
    IF isLeader
    THEN \E d \in {UpgradeMigration(LocalUnit, data)} :
             /\ data' = d
             /\ leaderData' = UpgradeLeaderData(LocalUnit, data)
             /\ deferred' = [deferred EXCEPT ![UpgradeSlot] = pending]
             /\ emitted' = <<>>
             /\ last' = [Idle EXCEPT !.op = "upgrade_charm",
                                      !.again = (last.op = "upgrade_charm")]
             /\ UNCHANGED <<isLeader, rels>>
    ELSE \E m \in {_mirror_appdata(LocalUnit, isLeader, data, leaderData)} :
             /\ data' = m.data
             /\ leaderData' = m.lead
             /\ deferred' = [deferred EXCEPT ![UpgradeSlot] = pending]
             /\ emitted' = <<>>
             /\ last' = [Idle EXCEPT !.op = "upgrade_charm",
                                      !.again = (last.op = "upgrade_charm")]
             /\ UNCHANGED <<isLeader, rels>>

\* _on_upgrade_charm(self, event); pending is the number of the other deferred
\* upgrade-charm notifications
_on_upgrade_charm(pending) ==
    IF isLeader
    THEN \E d \in {UpgradeMigration(LocalUnit, data)} :
             /\ data' = d
             /\ leaderData' = UpgradeLeaderData(LocalUnit, data)
             /\ deferred' = [deferred EXCEPT ![UpgradeSlot] = pending]
             /\ emitted' = <<>>
             /\ last' = [Idle EXCEPT !.op = "upgrade_charm",
                                      !.again = (last.op = "upgrade_charm")]
             /\ UNCHANGED <<isLeader, rels>>
    ELSE IF leaderData # EmptyDict
    THEN \E m \in {_mirror_appdata(LocalUnit, isLeader, data, leaderData)} :
             /\ data' = m.data
             /\ leaderData' = m.lead
             /\ deferred' = [deferred EXCEPT ![UpgradeSlot] = pending]
             /\ emitted' = <<>>
             /\ last' = [Idle EXCEPT !.op = "upgrade_charm",
                                      !.again = (last.op = "upgrade_charm")]
             /\ UNCHANGED <<isLeader, rels>>
    ELSE /\ deferred' = [deferred EXCEPT ![UpgradeSlot] = pending + 1]
         /\ emitted' = <<>>
         /\ last' = [Idle EXCEPT !.op = "upgrade_charm", !.retry = TRUE,
                                  !.again = (last.op = "upgrade_charm")]
         /\ UNCHANGED <<data, leaderData, isLeader, rels>>

---------------------------------------------------------------------------
(* Notifications and the environment *)

\* relation-joined is delivered for relation r
Joined(r) == r \in DOMAIN data /\ _on_joined(r)

\* relation-changed is delivered for relation r
Changed(r) ==
    /\ r \in DOMAIN data
    /\ r \in DOMAIN rels \/ deferred[r] < MaxDeferred
    /\ _on_changed(r, deferred[r])

\* a deferred relation-changed of relation r is delivered again
ChangedAgain(r) ==
    /\ r \in DOMAIN data
    /\ deferred[r] > 0
    /\ _on_changed(r, deferred[r] - 1)

\* relation-broken is delivered for relation r
Broken(r) == r \in DOMAIN data /\ _on_broken(r)

\* a remote participant p of relation r sets key k to the non-empty value v
RemoteSet(r, p, k, v) ==
    /\ r \in DOMAIN data
    /\ GetOr(data[r][p], k, <<>>) # v
    /\ data' = [data EXCEPT ![r][p] = Put(@, k, v)]
    /\ emitted' = <<>>
    /\ last' = Idle
    /\ UNCHANGED <<leaderData, isLeader, rels, deferred>>

\* a remote participant p of relation r removes key k
RemoteUnset(r, p, k) ==
    /\ r \in DOMAIN data
    /\ k \in DOMAIN data[r][p]
    /\ data' = [data EXCEPT ![r][p] = Del(@, k)]
    /\ emitted' = <<>>
    /\ last' = Idle
    /\ UNCHANGED <<leaderData, isLeader, rels, deferred>>

Init ==
    /\ data = [r \in RelIds |-> [p \in Participants |-> EmptyDict]]
    /\ leaderData = EmptyDict
    /\ isLeader \in BOOLEAN
    /\ rels = EmptyDict
    /\ emitted = <<>>
    /\ last = Idle
    /\ deferred = [r \in RelIds |-> 0]

Next ==
    \/ \E r \in RelIds : Joined(r)
    \/ \E r \in RelIds : Changed(r)
    \/ \E r \in RelIds : ChangedAgain(r)
    \/ \E r \in RelIds : Broken(r)
    \/ \E r \in DataRels, p \in RemoteWriters, k \in DOMAIN Published :
           \E v \in Published[k] : RemoteSet(r, p, k, v)
    \/ \E r \in DataRels, p \in RemoteWriters, k \in DOMAIN Published :
           RemoteUnset(r, p, k)

Spec == Init /\ [][Next]_vars

\* the values the remote side publishes where deferred notifications are
\* followed up
PublishedRetry == [master |-> {<<"m">>}]

NextRetry ==
    \/ \E r \in DataRels : Joined(r)
    \/ \E r \in DataRels : Changed(r)
    \/ \E r \in DataRels : ChangedAgain(r)
    \/ \E r \in DataRels : Broken(r)
    \/ \E r \in DataRels, p \in RemoteWriters, k \in DOMAIN PublishedRetry :
           \E v \in PublishedRetry[k] : RemoteSet(r, p, k, v)
    \/ \E r \in DataRels, p \in RemoteWriters, k \in DOMAIN PublishedRetry :
           RemoteUnset(r, p, k)

\* The relation state machine with deferred notifications delivered again in the
\* end: the framework emits the deferred notifications again at every later
\* dispatch.
SpecRetry == Init /\ [][NextRetry]_vars /\ \A r \in DataRels : WF_vars(ChangedAgain(r))

---------------------------------------------------------------------------
(* The relation state machine with the configuration, the leadership and the
   upgrade notifications *)

\* leader-elected is delivered
LeaderElected == _on_leader_change("leader_elected")

\* leader-settings-changed is delivered
LeaderSettingsChanged == _on_leader_change("leader_settings_changed")

\* upgrade-charm is delivered
UpgradeCharm ==
    /\ isLeader \/ leaderData # EmptyDict \/ deferred[UpgradeSlot] < MaxDeferred
    /\ _on_upgrade_charm(deferred[UpgradeSlot])

\* a deferred upgrade-charm is delivered again
UpgradeCharmAgain ==
    /\ deferred[UpgradeSlot] > 0
    /\ _on_upgrade_charm(deferred[UpgradeSlot] - 1)

\* the unit gains or loses the leadership
LeadershipChange ==
    /\ isLeader' = ~isLeader
    /\ emitted' = <<>>
    /\ last' = Idle
    /\ UNCHANGED <<data, leaderData, rels, deferred>>

\* the charm sets the database of relation r through an event
SetDatabase(r, dbname) == r \in DOMAIN data /\ database_setter(r, dbname)

\* the charm sets the roles of relation r through an event
SetRoles(r, names) == r \in DOMAIN data /\ roles_setter(r, names)

\* the charm sets the extensions of relation r through an event
SetExtensions(r, names) == r \in DOMAIN data /\ extensions_setter(r, names)

\* the database names the charm asks for
DatabaseNames == {None, Some(<<"f">>)}

\* the values the remote side publishes under each key
PublishedCfg == [master |-> {<<"m">>}, database |-> {<<"f">>}]

\* The unit starts with no record; the unit bag of a relation that DataRels
\* names may hold the database a charm older than this library stored there.
InitCfg ==
    /\ \E legacy \in {EmptyDict, [database |-> <<"f">>]} :
           data = [r \in RelIds |-> [p \in Participants |->
                      IF r \in DataRels /\ p = LocalUnit THEN legacy ELSE EmptyDict]]
    /\ leaderData = EmptyDict
    /\ isLeader \in BOOLEAN
    /\ rels = EmptyDict
    /\ emitted = <<>>
    /\ last = Idle
    /\ deferred = [r \in RelIds \cup {UpgradeSlot} |-> 0]

NextCfg ==
    \/ \E r \in RelIds : Joined(r)
    \/ \E r \in RelIds : Changed(r)
    \/ \E r \in RelIds : ChangedAgain(r)
    \/ \E r \in RelIds : Broken(r)
    \/ LeaderElected
    \/ LeaderSettingsChanged
    \/ UpgradeCharm
    \/ UpgradeCharmAgain
    \/ LeadershipChange
    \/ \E r \in DataRels, dbname \in DatabaseNames : SetDatabase(r, dbname)
    \/ \E r \in DataRels, p \in RemoteWriters, k \in DOMAIN PublishedCfg :
           \E v \in PublishedCfg[k] : RemoteSet(r, p, k, v)
    \/ \E r \in DataRels, p \in RemoteWriters, k \in DOMAIN PublishedCfg :
           RemoteUnset(r, p, k)

SpecCfg == InitCfg /\ [][NextCfg]_vars

---------------------------------------------------------------------------
(* The configuration mirror and the upgrade migration, with relations that go
   and a leader among the peers *)

\* Relation r, whose relation-broken was just handled, is gone: it is no longer
\* among self.model.relations[self.relation_name].
Removed(r) ==
    /\ r \in DOMAIN data
    /\ last.op = "broken" /\ last.rel = r
    /\ data' = [x \in (DOMAIN data) \ {r} |-> data[x]]
    /\ emitted' = <<>>
    /\ last' = Idle
    /\ UNCHANGED <<leaderData, isLeader, rels, deferred>>

\* The leader, another unit of the application, sets the database of relation
\* r: of the three writes of its setter the application bag and the leader data
\* are seen by this unit.
PeerSetDatabase(r, dbname) ==
    /\ r \in DOMAIN data
    /\ ~isLeader
    /\ \E w \in {SetConfig(LocalUnit, data, leaderData, r, "database", DatabaseValue(dbname))} :
           /\ data' = [data EXCEPT ![r] = [@ EXCEPT ![AppOf(LocalUnit)] =
                                                    w.data[r][AppOf(LocalUnit)]]]
           /\ leaderData' = w.lead
    /\ data' # data \/ leaderData' # leaderData
    /\ emitted' = <<>>
    /\ last' = Idle
    /\ UNCHANGED <<isLeader, rels, deferred>>

\* the database names the leader among the peers asks for
PeerDatabaseNames == {None, Some(<<"g">>)}

\* The unit starts with no record; its unit bags hold the egress subnets Juju
\* stores there, and that of a relation that DataRels names may hold the
\* database a charm older than this library stored there.
InitMirror ==
    /\ \E legacy \in {EmptyDict, [database |-> <<"f">>]} :
           data = [r \in RelIds |-> [p \in Participants |->
                      IF p # LocalUnit THEN EmptyDict
                      ELSE Put(IF r \in DataRels THEN legacy ELSE EmptyDict,
                               "egress-subnets", <<"1">>)]]
    /\ leaderData = EmptyDict
    /\ isLeader \in BOOLEAN
    /\ rels = EmptyDict
    /\ emitted = <<>>
    /\ last = Idle
    /\ deferred = [r \in RelIds \cup {UpgradeSlot} |-> 0]

NextMirror ==
    \/ \E r \in RelIds : Joined(r)
    \/ \E r \in RelIds : Changed(r)
    \/ \E r \in RelIds : ChangedAgain(r)
    \/ \E r \in RelIds : Broken(r)
    \/ \E r \in RelIds : Removed(r)
    \/ LeaderElected
    \/ LeaderSettingsChanged
    \/ UpgradeCharm
    \/ UpgradeCharmAgain
    \/ LeadershipChange
    \/ \E r \in DataRels, dbname \in DatabaseNames : SetDatabase(r, dbname)
    \/ \E r \in DataRels, dbname \in PeerDatabaseNames : PeerSetDatabase(r, dbname)

SpecMirror == InitMirror /\ [][NextMirror]_vars

---------------------------------------------------------------------------
(* The setters of the relation configuration *)

\* the longest list of names given to the roles setter
MaxNames == 2

\* the names the lists given to the roles setter are made of: two plain names
\* and one that holds a comma
RoleNames == {<<"a">>, <<"b">>, <<"a", ",", "b">>}

RECURSIVE ListsOf(_, _)
\* the lists of at most n items of S
ListsOf(S, n) ==
    IF n = 0 THEN {<<>>}
    ELSE ListsOf(S, n - 1) \cup {<<x>> \o l : x \in S, l \in {m \in ListsOf(S, n - 1) : Len(m) = n - 1}}

\* what the charm gives to the roles setter: None or a list of names
RoleLists == {None} \cup {Some(l) : l \in ListsOf(RoleNames, MaxNames)}

\* what the charm gives to the extensions setter
ExtensionLists == {None, Some(<<>>), Some(<<<<"b">>, <<"a">>>>)}

NextSetters ==
    \/ \E r \in DataRels, dbname \in DatabaseNames : SetDatabase(r, dbname)
    \/ \E r \in DataRels, names \in RoleLists : SetRoles(r, names)
    \/ \E r \in DataRels, names \in ExtensionLists : SetExtensions(r, names)
    \/ LeadershipChange
    \/ LeaderSettingsChanged

SpecSetters == Init /\ [][NextSetters]_vars

---------------------------------------------------------------------------
(* The relation configuration through every operation of the component *)

\* what the charm gives to the roles and to the extensions setter
NamesGiven == {None, Some(<<<<"a">>>>)}

NextShared ==
    \/ \E r \in RelIds : Joined(r)
    \/ \E r \in RelIds : Changed(r)
    \/ \E r \in RelIds : ChangedAgain(r)
    \/ \E r \in RelIds : Broken(r)
    \/ LeaderElected
    \/ LeaderSettingsChanged
    \/ UpgradeCharm
    \/ UpgradeCharmAgain
    \/ LeadershipChange
    \/ \E r \in DataRels, dbname \in DatabaseNames : SetDatabase(r, dbname)
    \/ \E r \in DataRels, names \in NamesGiven : SetRoles(r, names)
    \/ \E r \in DataRels, names \in NamesGiven : SetExtensions(r, names)

SpecShared == InitCfg /\ [][NextShared]_vars

---------------------------------------------------------------------------
(* A unit that is not the leader, beside the leader among its peers *)

\* the leader, another unit of the local application
PeerUnit == <<"c", "/", "4">>

\* The leader sets key of relation r to value through an event: the three
\* writes of its setter, to the application bag, to its own unit bag and to the
\* leader data.
PeerSet(r, key, value) ==
    /\ r \in DOMAIN data
    /\ \E w \in {SetterOutcome(TRUE, PeerUnit, data, leaderData, r, key, value)} :
           /\ data' = w.data
           /\ leaderData' = w.lead
    /\ emitted' = <<>>
    /\ last' = Idle
    /\ UNCHANGED <<isLeader, rels, deferred>>

\* The leader handles upgrade-charm: the migration of its unit bags and the
\* leader data stored from the application bags.
PeerUpgradeCharm ==
    /\ data' = UpgradeMigration(PeerUnit, data)
    /\ leaderData' = UpgradeLeaderData(PeerUnit, data)
    /\ emitted' = <<>>
    /\ last' = [Idle EXCEPT !.op = "peer_upgrade_charm"]
    /\ UNCHANGED <<isLeader, rels, deferred>>

\* The application has any of the relations, none among them; this unit is not
\* the leader, and the bags of the relations, that of the leader's unit with
\* them, are empty.
InitPeers ==
    /\ \E rs \in SUBSET RelIds :
           data = [r \in rs |-> [p \in Participants \cup {PeerUnit} |-> EmptyDict]]
    /\ leaderData = EmptyDict
    /\ isLeader = FALSE
    /\ rels = EmptyDict
    /\ emitted = <<>>
    /\ last = Idle
    /\ deferred = [r \in RelIds \cup {UpgradeSlot} |-> 0]

NextPeers ==
    \/ \E r \in RelIds : Joined(r)
    \/ \E r \in RelIds : Changed(r)
    \/ \E r \in RelIds : ChangedAgain(r)
    \/ LeaderSettingsChanged
    \/ UpgradeCharm
    \/ UpgradeCharmAgain
    \/ \E r \in DataRels, dbname \in DatabaseNames :
           PeerSet(r, "database", DatabaseValue(dbname))
    \/ \E r \in DataRels, names \in NamesGiven :
           PeerSet(r, "roles", NamesValue(names))
    \/ \E r \in DataRels, names \in NamesGiven :
           PeerSet(r, "extensions", NamesValue(names))
    \/ PeerUpgradeCharm

SpecPeers == InitPeers /\ [][NextPeers]_vars

---------------------------------------------------------------------------
(* The endpoint resolver applied to the data of one relation *)

\* the dict of the keys of the function f that hold a value, f[k] an optional
Bag(f) == [k \in {k \in DOMAIN f : f[k] # None} |-> f[k][1]]

\* None and the values of S as optionals
Optional(S) == {None} \cup {Some(x) : x \in S}

\* The bags a participant can hold: a master, standbys, the database the
\* provider echoes, the subnets it allows and the local unit's egress subnets,
\* each absent or one of the values given.
Bags(masters, standbys, databases, allowed, egress) ==
    {Bag(("master" :> m) @@ ("standbys" :> s) @@ ("database" :> d)
         @@ ("allowed-subnets" :> a) @@ ("egress-subnets" :> e)) :
        m \in Optional(masters), s \in Optional(standbys), d \in Optional(databases),
        a \in Optional(allowed), e \in Optional(egress)}

\* the bags of each participant of the relation the resolver is applied to
ResolveBags ==
    (LocalUnit :> Bags({<<"l">>}, {<<"u">>}, {}, {}, {<<"1">>}))
    @@ (AppOf(LocalUnit) :> Bags({<<"k">>}, {<<"v">>}, {}, {}, {}))
    @@ (RemoteApp :> Bags({<<"m">>}, {<<"a", "\n", "b">>, <<"\n">>}, {<<"f">>}, {<<"1">>}, {}))
    @@ (RemoteUnit :> Bags({<<"n">>}, {<<"c">>}, {<<"f">>}, {<<"1">>}, {}))

\* The relations of DataRels hold any of ResolveBags, the leader data holds the
\* database asked for or nothing, and the unit is the leader or is not.
InitResolve ==
    /\ \E bags \in [Participants -> UNION {ResolveBags[p] : p \in Participants}] :
           /\ \A p \in Participants : bags[p] \in ResolveBags[p]
           /\ data = [r \in RelIds |-> IF r \in DataRels THEN bags
                                       ELSE [p \in Participants |-> EmptyDict]]
    /\ \E dbname \in DatabaseNames :
           leaderData = IF dbname = None THEN EmptyDict
                        ELSE [r \in DataRels |-> [database |-> dbname[1]]]
    /\ isLeader \in BOOLEAN
    /\ rels = EmptyDict
    /\ emitted = <<>>
    /\ last = Idle
    /\ deferred = [r \in RelIds |-> 0]

\* the master property of an event of relation r is read
ResolveMaster(r) ==
    /\ r \in DOMAIN data
    /\ last.op # "master"
    /\ last' = [Idle EXCEPT !.op = "master", !.rel = r,
                            !.new_master = _master(leaderData, r, data[r], LocalUnit)]
    /\ emitted' = <<>>
    /\ UNCHANGED <<data, leaderData, isLeader, rels, deferred>>

\* the standbys property of an event of relation r is read
ResolveStandbys(r) ==
    /\ r \in DOMAIN data
    /\ last.op # "standbys"
    /\ last' = [Idle EXCEPT !.op = "standbys", !.rel = r,
                            !.new_standbys = _standbys(leaderData, r, data[r], LocalUnit)]
    /\ emitted' = <<>>
    /\ UNCHANGED <<data, leaderData, isLeader, rels, deferred>>

NextResolve ==
    \/ \E r \in DataRels : ResolveMaster(r)
    \/ \E r \in DataRels : ResolveStandbys(r)

SpecResolve == InitResolve /\ [][NextResolve]_vars

---------------------------------------------------------------------------
(* The readiness evaluation applied to three dicts *)

\* The dicts _is_ready is given: each key absent or one of the values given for
\* it; vals is a function from the keys to the sets of their values.
Dicts(vals) ==
    {Bag(f) : f \in {g \in [DOMAIN vals -> UNION {Optional(vals[k]) : k \in DOMAIN vals}] :
                        \A k \in DOMAIN vals : g[k] \in Optional(vals[k])}}

\* the shared configuration: what was asked for
ReadyAppdata ==
    Dicts(("database" :> {<<>>, <<"f">>}) @@ ("roles" :> {<<"a">>})
          @@ ("extensions" :> {<<"b">>}))

\* the local unit bag
ReadyLocdata ==
    Dicts("egress-subnets" :> {<<>>, <<"1">>, <<"1", ",", " ", "2">>, <<" ", ",">>})

\* the bag of a remote participant
ReadyReldata ==
    Dicts(("database" :> {<<>>, <<"f">>}) @@ ("roles" :> {<<"a">>})
          @@ ("extensions" :> {<<"b">>})
          @@ ("allowed-subnets" :> {<<"1">>, <<"2", ",", "1">>, <<"3">>}))

\* _is_ready is about to be called with the three dicts of last.arg
InitReady ==
    /\ data = [r \in RelIds |-> [p \in Participants |-> EmptyDict]]
    /\ leaderData = EmptyDict
    /\ isLeader = FALSE
    /\ rels = EmptyDict
    /\ emitted = <<>>
    /\ \E appdata \in ReadyAppdata, locdata \in ReadyLocdata, reldata \in ReadyReldata :
           last = [Idle EXCEPT !.op = "call",
                               !.arg = Some([appdata |-> appdata, locdata |-> locdata,
                                             reldata |-> reldata])]
    /\ deferred = [r \in RelIds |-> 0]

\* _is_ready is called and returns
IsReady ==
    /\ last.op = "call"
    /\ last' = [last EXCEPT !.op = "is_ready",
                            !.ready = _is_ready(last.arg[1].appdata, last.arg[1].locdata,
                                                last.arg[1].reldata)]
    /\ UNCHANGED <<data, leaderData, isLeader, rels, emitted, deferred>>

NextReady == IsReady

SpecReady == InitReady /\ [][NextReady]_vars

---------------------------------------------------------------------------
(* The master and standbys properties of the events, read while the relation
   data changes *)

\* A faulty master: the property returns the master that the relation's record
\* holds.
masterStored(r) ==
    IF r \in DOMAIN rels /\ Truthy(rels[r].master)
    THEN Some(ConnectionString(rels[r].master, EmptyDict))
    ELSE None

\* PostgreSQLRelationEvent.master of an event of relation r
master(r) ==
    LET conn_str == _master(leaderData, r, data[r], LocalUnit)
    IN  IF Truthy(conn_str) THEN Some(ConnectionString(conn_str, EmptyDict)) ELSE None

\* PostgreSQLRelationEvent.standbys of an event of relation r
standbys(r) ==
    LET ss == _standbys(leaderData, r, data[r], LocalUnit)
    IN  [i \in 1..Len(ss) |-> ConnectionString(Some(ss[i]), EmptyDict)]

\* the values the remote side publishes under each key: connection strings
PublishedRead ==
    [master   |-> {<<"a", "=", "m">>, <<"a", "=", "p">>},
     standbys |-> {<<"a", "=", "b">>, <<"a", "=", "b", "\n", "a", "=", "c">>},
     database |-> {<<"f">>}]

\* the charm reads the master and the standbys of an event of relation r, one
\* that the notification just handled emitted or one it kept from before
ReadEvent(r) ==
    /\ r \in DOMAIN data
    /\ last.arg = None
    /\ last' = [last EXCEPT !.arg = Some([rel |-> r, master |-> master(r),
                                          standbys |-> standbys(r)])]
    /\ UNCHANGED <<data, leaderData, isLeader, rels, emitted, deferred>>

NextRead ==
    \/ \E r \in DataRels : Joined(r)
    \/ \E r \in DataRels : Changed(r)
    \/ \E r \in DataRels : ChangedAgain(r)
    \/ \E r \in DataRels : Broken(r)
    \/ \E r \in DataRels, p \in RemoteWriters, k \in DOMAIN PublishedRead :
           \E v \in PublishedRead[k] : RemoteSet(r, p, k, v)
    \/ \E r \in DataRels, p \in RemoteWriters, k \in DOMAIN PublishedRead :
           RemoteUnset(r, p, k)
    \/ \E r \in DataRels : ReadEvent(r)

SpecRead == Init /\ [][NextRead]_vars

---------------------------------------------------------------------------
(* The connection string built from keyword arguments and parsed again *)

\* the longest value of the keyword arguments
MaxValueLen == 3

\* the characters of the values
ValueChars == {"a", "'", "\\", " ", "\n"}

\* the strs of at most n characters of ValueChars
Values(n) == UNION {[1..m -> ValueChars] : m \in 0..n}

\* The keyword arguments: a of any value, b and ab of one of a few values, each
\* given or not.
Keywords ==
    {Bag((<<"a">> :> x) @@ (<<"b">> :> y) @@ (<<"a", "b">> :> z)) :
        x \in Optional(Values(MaxValueLen)),
        y \in Optional({<<>>, <<"b">>, <<"a", " ", "b">>}),
        z \in Optional({<<"\\", "'">>})}

\* ConnectionString(**kw) is about to be called with the kw of last.arg
InitConnStr ==
    /\ data = [r \in RelIds |-> [p \in Participants |-> EmptyDict]]
    /\ leaderData = EmptyDict
    /\ isLeader = FALSE
    /\ rels = EmptyDict
    /\ emitted = <<>>
    /\ \E kw \in Keywords :
           last = [Idle EXCEPT !.op = "call",
                               !.arg = Some([kw |-> kw, items |-> <<>>,
                                             made |-> ConnectionString(None, EmptyDict),
                                             parsed |-> ConnectionString(None, EmptyDict)])]
    /\ deferred = [r \in RelIds |-> 0]

\* ConnectionString(**kw) is called; the items it joins are kept with it
Construct ==
    /\ last.op = "call"
    /\ last' = [last EXCEPT !.op = "construct",
                            !.arg = Some([last.arg[1] EXCEPT
                                !.items = FormatItems(last.arg[1].kw),
                                !.made = ConnectionString(None, last.arg[1].kw)])]
    /\ UNCHANGED <<data, leaderData, isLeader, rels, emitted, deferred>>

\* ConnectionString(str(made)) is called
Parse ==
    /\ last.op = "construct"
    /\ last' = [last EXCEPT !.op = "parse",
                            !.arg = Some([last.arg[1] EXCEPT
                                !.parsed = ConnectionString(Some(last.arg[1].made.conn_str),
                                                            EmptyDict)])]
    /\ UNCHANGED <<data, leaderData, isLeader, rels, emitted, deferred>>

NextConnStr == Construct \/ Parse

SpecConnStr == InitConnStr /\ [][NextConnStr]_vars

---------------------------------------------------------------------------
(* Properties of the relation state machine *)

\* the nine events a relation-changed can emit
ChangeEventNames ==
    {"master_available", "master_changed", "master_gone",
     "standby_available", "standby_changed", "standby_gone",
     "database_available", "database_changed", "database_gone"}

\* The rule table of the Change transition: the set of events it selects for the
\* stored master pm and standbys ps and the resolved master nm and standbys ns.
RuleTable(pm, ps, nm, ns) ==
    LET MA == pm = None /\ nm # None
        MC == Str(pm) # Str(nm)
        MG == pm # None /\ nm = None
        SA == ps = <<>> /\ ns # <<>>
        SC == ps # ns
        SG == ps # <<>> /\ ns = <<>>
    IN  {e \in ChangeEventNames :
            \/ e = "master_available" /\ MA
            \/ e = "master_changed" /\ MC
            \/ e = "master_gone" /\ MG
            \/ e = "standby_available" /\ SA
            \/ e = "standby_changed" /\ SC
            \/ e = "standby_gone" /\ SG
            \/ e = "database_available" /\ (MA \/ SA)
            \/ e = "database_changed" /\ (MC \/ SC)
            \/ e = "database_gone" /\ nm = None /\ ns = <<>> /\ (MG \/ SG)}

\* the sequence es holds exactly the events of the set S, each once
ExactlyOnce(es, S) == ToSet(es) = S /\ Len(es) = Cardinality(S)

\* the last notification was a relation-changed of a relation that had a record
ChangeProcessed == last.op = "changed" /\ last.had

\* C1: every relation-changed processed while the relation has a record emits
\* exactly the events the rule table selects from the stored master and standbys
\* and the master and standbys resolved from the data it leaves, each once.
C1_RuleTable ==
    [][(last'.op = "changed" /\ last'.rel \in DOMAIN rels) =>
          ExactlyOnce(emitted',
                      RuleTable(rels[last'.rel].master,
                                OrEmpty(rels[last'.rel].standbys),
                                _master(leaderData', last'.rel, data'[last'.rel], LocalUnit),
                                _standbys(leaderData', last'.rel, data'[last'.rel], LocalUnit)))
      ]_vars

\* C1 witness: a relation-changed that found both a new master and new standbys
\* where others were stored, and emitted the three Changed events only.
C1_Witness ==
    /\ ChangeProcessed
    /\ last.prev_master # None /\ last.new_master # None
    /\ last.prev_standbys # <<>> /\ last.new_standbys # <<>>
    /\ emitted = <<"master_changed", "standby_changed", "database_changed">>

\* C2: database_relation_joined is emitted by the relation-joined that creates
\* the record and by nothing else: a relation-joined of a relation that has a
\* record emits nothing and leaves every record as it was.
C2_JoinedOnce ==
    [][/\ (last'.op = "joined" /\ last'.rel \in DOMAIN rels) =>
              emitted' = <<>> /\ rels' = rels
       /\ (last'.op = "joined" /\ last'.rel \notin DOMAIN rels) =>
              /\ emitted' = <<"database_relation_joined">>
              /\ DOMAIN rels' = DOMAIN rels \cup {last'.rel}
              /\ rels'[last'.rel] = [master |-> None, standbys |-> None]
       /\ last'.op # "joined" => "database_relation_joined" \notin ToSet(emitted')
      ]_vars

\* C2 witness: a second relation-joined arrived after a master and standbys had
\* been stored, emitted nothing and left them stored.
C2_Witness ==
    /\ last.op = "joined" /\ last.had
    /\ emitted = <<>>
    /\ rels[last.rel].master # None
    /\ Truthy(rels[last.rel].standbys)

\* C3: a relation-changed of a relation without a record asks to be delivered
\* again and does nothing else: no event, no record, no mirroring, the relation
\* data and the leader data as they were.
C3_DeferOnly ==
    [][(last'.op = "changed" /\ last'.rel \notin DOMAIN rels) =>
          /\ last'.retry
          /\ deferred'[last'.rel] > 0
          /\ emitted' = <<>>
          /\ rels' = rels
          /\ data' = data
          /\ leaderData' = leaderData
      ]_vars

\* C3 witness: a relation-changed was deferred in a state in which the mirror
\* would have written both the unit bag and the leader data.
C3_Witness ==
    /\ last.op = "changed" /\ last.retry /\ ~last.had
    /\ last.rel \notin DOMAIN rels
    /\ deferred[last.rel] > 0
    /\ _mirror_appdata(LocalUnit, isLeader, data, leaderData).data # data
    /\ _mirror_appdata(LocalUnit, isLeader, data, leaderData).lead # leaderData

\* C4: relation-broken emits, from the record stored before it: master_changed
\* then master_gone if a master was stored; standby_changed then standby_gone if
\* standbys were stored; database_changed then database_gone if either pair was
\* emitted; database_relation_broken last. Afterwards the relation has no record.
C4_BrokenOrder ==
    [][last'.op = "broken" =>
          LET r == last'.rel
              pm == IF r \in DOMAIN rels THEN rels[r].master ELSE None
              ps == IF r \in DOMAIN rels THEN OrEmpty(rels[r].standbys) ELSE <<>>
          IN  /\ emitted' =
                     (IF pm # None THEN <<"master_changed", "master_gone">> ELSE <<>>)
                     \o (IF ps # <<>> THEN <<"standby_changed", "standby_gone">> ELSE <<>>)
                     \o (IF pm # None \/ ps # <<>>
                         THEN <<"database_changed", "database_gone">> ELSE <<>>)
                     \o <<"database_relation_broken">>
              /\ r \notin DOMAIN rels'
              /\ \A q \in DOMAIN rels \ {r} : q \in DOMAIN rels' /\ rels'[q] = rels[q]
      ]_vars

\* C4 witness: a relation with a stored master and no stored standbys was broken.
C4_Witness ==
    /\ last.op = "broken" /\ last.had
    /\ last.prev_master # None /\ last.prev_standbys = <<>>
    /\ emitted = <<"master_changed", "master_gone", "database_changed", "database_gone",
                   "database_relation_broken">>
    /\ last.rel \notin DOMAIN rels

\* C5: a relation-changed delivered straight after a processed relation-changed
\* of the same relation, nothing having changed in between, emits no event and
\* leaves the records as they were.
C5_ChangedIdempotent ==
    [][(ChangeProcessed /\ last'.op = "changed" /\ last'.rel = last.rel) =>
          /\ emitted' = <<>>
          /\ rels' = rels
          /\ data' = data
          /\ leaderData' = leaderData
      ]_vars

\* C5 witness: a relation-changed that found the stored master and standbys
\* still published emitted nothing.
C5_Witness ==
    /\ ChangeProcessed
    /\ emitted = <<>>
    /\ last.new_master # None /\ last.new_master = last.prev_master
    /\ last.new_standbys # <<>> /\ last.new_standbys = last.prev_standbys

\* C6: after a processed relation-changed the relation's record holds the master
\* and the standbys the resolver returned during it, which are the ones the
\* resolver returns on the data the handler leaves.
C6_RecordIsResolved ==
    ChangeProcessed =>
        /\ last.rel \in DOMAIN rels
        /\ rels[last.rel].master = last.new_master
        /\ rels[last.rel].standbys = Some(last.new_standbys)
        /\ last.new_master = _master(leaderData, last.rel, data[last.rel], LocalUnit)
        /\ last.new_standbys = _standbys(leaderData, last.rel, data[last.rel], LocalUnit)

\* C6 witness: a processed relation-changed replaced a stored master and stored
\* standbys by other ones.
C6_Witness ==
    /\ ChangeProcessed
    /\ last.prev_master # None /\ last.new_master # None
    /\ last.prev_master # last.new_master
    /\ last.prev_standbys # <<>> /\ last.new_standbys # <<>>
    /\ last.prev_standbys # last.new_standbys
    /\ rels[last.rel].master = last.new_master

\* C7: a relation-changed that takes the stored master from none to any
\* non-empty string, the standbys empty before and after, emits exactly
\* master_available, database_available, master_changed and database_changed,
\* each once.
C7_MasterAvailable ==
    (/\ ChangeProcessed
     /\ last.prev_master = None /\ last.new_master # None
     /\ last.prev_standbys = <<>> /\ last.new_standbys = <<>>) =>
        ExactlyOnce(emitted, {"master_available", "database_available",
                              "master_changed", "database_changed"})

\* C8: a relation-changed that finds no master and no standbys where a master
\* and standbys were stored emits master_gone, standby_gone, database_gone,
\* master_changed, standby_changed and database_changed, each once, and nothing
\* else.
C8_AllGone ==
    (/\ ChangeProcessed
     /\ last.prev_master # None /\ last.new_master = None
     /\ last.prev_standbys # <<>> /\ last.new_standbys = <<>>) =>
        ExactlyOnce(emitted, {"master_gone", "standby_gone", "database_gone",
                              "master_changed", "standby_changed", "database_changed"})

\* C9: a processed relation-changed emits database_gone if and only if a master
\* or standbys were stored and it resolved neither a master nor standbys.
C9_DatabaseGone ==
    ChangeProcessed =>
        ("database_gone" \in ToSet(emitted)
            <=> /\ last.prev_master # None \/ last.prev_standbys # <<>>
                /\ last.new_master = None /\ last.new_standbys = <<>>)

\* C9 witness: the master went and the standbys remained: master_gone was
\* emitted and database_gone was not.
C9_Witness ==
    /\ ChangeProcessed
    /\ last.prev_master # None /\ last.new_master = None
    /\ last.new_standbys # <<>>
    /\ "master_gone" \in ToSet(emitted)
    /\ "database_gone" \notin ToSet(emitted)

\* C10: a relation-broken of a relation that has no record, or whose record
\* holds no master and no standbys, emits database_relation_broken and nothing
\* else.
C10_BrokenBare ==
    [][(/\ last'.op = "broken"
        /\ \/ last'.rel \notin DOMAIN rels
           \/ /\ rels[last'.rel].master = None
              /\ OrEmpty(rels[last'.rel].standbys) = <<>>) =>
          /\ emitted' = <<"database_relation_broken">>
          /\ last'.rel \notin DOMAIN rels'
      ]_vars

\* C10 witness: a relation without a record was broken.
C10_Witness ==
    /\ last.op = "broken" /\ ~last.had
    /\ emitted = <<"database_relation_broken">>

\* the order in which the rule table lists the events of a relation-changed
ChangeOrder ==
    <<"master_available", "master_changed", "master_gone",
      "standby_available", "standby_changed", "standby_gone",
      "database_available", "database_changed", "database_gone">>

\* the place of the event e in ChangeOrder, 0 for any other event
PlaceOf(e) ==
    IF \E i \in DOMAIN ChangeOrder : ChangeOrder[i] = e
    THEN CHOOSE i \in DOMAIN ChangeOrder : ChangeOrder[i] = e
    ELSE 0

\* C12: the events of one processed relation-changed are emitted in the order
\* master_available, master_changed, master_gone, standby_available,
\* standby_changed, standby_gone, database_available, database_changed,
\* database_gone; so every master and standby event comes before every database
\* event.
C12_ChangeOrder ==
    ChangeProcessed =>
        /\ \A i \in DOMAIN emitted : PlaceOf(emitted[i]) > 0
        /\ \A i, j \in DOMAIN emitted :
               i < j => PlaceOf(emitted[i]) < PlaceOf(emitted[j])
        /\ \A i, j \in DOMAIN emitted :
               (PlaceOf(emitted[i]) <= 6 /\ PlaceOf(emitted[j]) > 6) => i < j

\* C12 witness: a relation-changed that found a master and standbys where none
\* were stored emitted six events, the two database events last.
C12_Witness ==
    /\ ChangeProcessed
    /\ emitted = <<"master_available", "master_changed",
                   "standby_available", "standby_changed",
                   "database_available", "database_changed">>

\* C11: the unit starts without records; a relation-joined leaves the relation
\* with a record, a relation-broken leaves it without one, and both leave the
\* other relations' records as they were; no other notification or operation
\* (relation-changed, leader-elected, leader-settings-changed, upgrade-charm, a
\* setter, a change of the data) creates or deletes a record. So a relation has
\* a record exactly when it was joined and not broken since.
C11_RecordLifetime ==
    /\ DOMAIN rels = {}
    /\ [][/\ last'.op = "joined" => DOMAIN rels' = DOMAIN rels \cup {last'.rel}
          /\ last'.op = "broken" => DOMAIN rels' = DOMAIN rels \ {last'.rel}
          /\ last'.op \notin {"joined", "broken"} => DOMAIN rels' = DOMAIN rels
         ]_vars

\* C11 witness: a relation-broken deleted the record of its relation and left
\* the record of the other relation, which was joined and not broken.
C11_Witness ==
    /\ last.op = "broken" /\ last.had
    /\ last.rel \notin DOMAIN rels
    /\ DOMAIN rels # {}

\* the last operation was the setter named op
SetterRan(op) == last.op = op /\ last.rel \in DOMAIN data

\* the value the bag of participant p of relation r holds under key, "" when it
\* holds none
Held(r, p, key) == GetOr(data[r][p], key, <<>>)

\* the value the leader data of relation r holds under key, "" when it holds none
Shared(r, key) == OrEmpty(Get(LeaderRecord(leaderData, r), key))

\* C18: after the leader set the database of a relation to a non-empty value v,
\* the application bag, the unit bag and the relation's leader data all hold
\* database = v and the database property reads v; after the leader set it to
\* None the three hold no or an empty database and the property reads None.
C18_DatabaseSet ==
    (SetterRan("database") /\ isLeader) =>
        LET r == last.rel
            v == OrEmpty(last.arg)
        IN  /\ ~last.error
            /\ Held(r, AppOf(LocalUnit), "database") = v
            /\ Held(r, LocalUnit, "database") = v
            /\ Shared(r, "database") = v
            /\ database(leaderData, r) = (IF v = <<>> THEN None ELSE Some(v))

\* C18 witness: the leader set the database to None where a database was set
\* before, and the property reads None.
C18_Witness ==
    /\ SetterRan("database") /\ isLeader /\ ~last.error
    /\ last.arg = None
    /\ "database" \in DOMAIN LeaderRecord(leaderData, last.rel)
    /\ database(leaderData, last.rel) = None

\* C19: a setter of database, roles or extensions run by a unit that is not the
\* leader raises an error and leaves the relation data (the application bag and
\* the unit bag among it) and the leader data as they were; the three
\* properties read what they read before, the values of the leader data.
C19_NonLeaderRefused ==
    [][(last'.op \in {"database", "roles", "extensions"} /\ ~isLeader) =>
          /\ last'.error
          /\ data' = data
          /\ leaderData' = leaderData
          /\ database(leaderData', last'.rel) =
                 (IF Shared(last'.rel, "database") = <<>> THEN None
                  ELSE Some(Shared(last'.rel, "database")))
          /\ Join(roles(leaderData', last'.rel), ",") = Shared(last'.rel, "roles")
          /\ Join(extensions(leaderData', last'.rel), ",") = Shared(last'.rel, "extensions")
      ]_vars

\* C19 witness: a unit that is not the leader was refused while the leader data
\* held a database, roles and extensions, which it reads.
C19_Witness ==
    /\ last.op \in {"database", "roles", "extensions"} /\ last.error /\ ~isLeader
    /\ database(leaderData, last.rel) = Some(<<"f">>)
    /\ roles(leaderData, last.rel) = <<<<"a">>, <<"b">>>>
    /\ extensions(leaderData, last.rel) = <<<<"a">>, <<"b">>>>
    /\ last.arg \notin {None, Some(<<"f">>), Some(<<<<"a">>, <<"b">>>>)}

\* the number of places of the list xs that hold x
Count(xs, x) == Cardinality({i \in DOMAIN xs : xs[i] = x})

\* the list ys holds the items of the list xs, each as often, in ascending order
IsSortingOf(ys, xs) ==
    /\ Len(ys) = Len(xs)
    /\ \A x \in ToSet(xs) \cup ToSet(ys) : Count(ys, x) = Count(xs, x)
    /\ \A i \in 1..(Len(ys) - 1) : ~StrLess(ys[i + 1], ys[i])

\* C20: after the leader gave names, in any order, to the roles or to the
\* extensions setter, the property reads the same names as a sorted list, and
\* the application bag, the unit bag and the relation's leader data hold these
\* names joined by commas; None and the empty list read as the empty list.
C20_NamesRoundTrip ==
    (SetterRan("roles") \/ SetterRan("extensions")) /\ isLeader =>
        LET r == last.rel
            key == last.op
            names == OrEmpty(last.arg)
            got == NameList(leaderData, r, key)
        IN  /\ ~last.error
            /\ IsSortingOf(got, names)
            /\ Held(r, AppOf(LocalUnit), key) = Join(got, ",")
            /\ Held(r, LocalUnit, key) = Join(got, ",")
            /\ Shared(r, key) = Join(got, ",")
            /\ names = <<>> => got = <<>>

\* the participants of relation r whose bags the resolver looks at: all but the
\* local application
Scanned(r) == (DOMAIN data[r]) \ {AppOf(LocalUnit)}

\* the scanned participants of relation r whose bag holds a non-empty value
\* under key and is ready for the relation's leader data and the local unit bag
Qualifying(r, key) ==
    {p \in Scanned(r) :
        /\ Held(r, p, key) # <<>>
        /\ _is_ready(LeaderRecord(leaderData, r), data[r][LocalUnit], data[r][p])}

\* the first, by name, of a non-empty set of participants
FirstOf(S) == CHOOSE p \in S : \A q \in S \ {p} : StrLess(p, q)

\* the lines of the str s that are not empty, in order
NonBlankLines(s) ==
    LET starts == {i \in 1..Len(s) : s[i] # "\n" /\ (i = 1 \/ s[i - 1] = "\n")}
        nth(n) == CHOOSE i \in starts : Cardinality({j \in starts : j < i}) = n - 1
        end(i) == CHOOSE j \in i..Len(s) :
                      /\ \A x \in i..j : s[x] # "\n"
                      /\ j = Len(s) \/ s[j + 1] = "\n"
    IN  [n \in 1..Cardinality(starts) |-> SubSeq(s, nth(n), end(nth(n)))]

\* C13: the master resolved is the master of the first participant, in the
\* order of the names, whose bag holds a non-empty master and is ready for the
\* leader data and the local unit bag: the participants before it that hold no
\* master or are not ready are passed over; it is None when no participant
\* qualifies. The participants are those of the relation but the local
\* application.
C13_FirstReadyMaster ==
    last.op = "master" =>
        last.new_master =
            IF Qualifying(last.rel, "master") = {} THEN None
            ELSE Some(Held(last.rel, FirstOf(Qualifying(last.rel, "master")), "master"))

\* C13 witness: the remote application holds a master and is not ready, and the
\* master of the remote unit, which comes after it, was resolved.
C13_Witness ==
    /\ last.op = "master"
    /\ Held(last.rel, RemoteApp, "master") # <<>>
    /\ RemoteApp \notin Qualifying(last.rel, "master")
    /\ Qualifying(last.rel, "master") = {RemoteUnit}
    /\ last.new_master = Some(Held(last.rel, RemoteUnit, "master"))

\* C14: the standbys resolved are the non-empty lines, in order, of the
\* standbys of the first participant, in the order of the names, whose bag
\* holds non-empty standbys and is ready; the standbys of no other participant
\* are added; they are the empty list when no participant qualifies.
C14_FirstReadyStandbys ==
    last.op = "standbys" =>
        last.new_standbys =
            IF Qualifying(last.rel, "standbys") = {} THEN <<>>
            ELSE NonBlankLines(Held(last.rel, FirstOf(Qualifying(last.rel, "standbys")),
                                    "standbys"))

\* C14 witness: the remote application and the remote unit both hold standbys
\* and are ready, and the two standbys of the remote application were resolved.
C14_Witness ==
    /\ last.op = "standbys"
    /\ Qualifying(last.rel, "standbys") = {RemoteApp, RemoteUnit}
    /\ Len(last.new_standbys) = 2
    /\ last.new_standbys = NonBlankLines(Held(last.rel, RemoteApp, "standbys"))

\* the data of a relation without the master and the standbys of the local
\* unit's own bag and of the local application bag
WithoutLocalEndpoints(reldata) ==
    [reldata EXCEPT ![LocalUnit] = Del(Del(@, "master"), "standbys"),
                    ![AppOf(LocalUnit)] = Del(Del(@, "master"), "standbys")]

\* C15: the master and the standbys resolved are those resolved from the data
\* without the master and the standbys of the local unit's bag and of the local
\* application bag: a value of these two bags is never returned and never
\* changes the result.
C15_RemoteOnly ==
    /\ last.op = "master" =>
           last.new_master =
               _master(leaderData, last.rel, WithoutLocalEndpoints(data[last.rel]), LocalUnit)
    /\ last.op = "standbys" =>
           last.new_standbys =
               _standbys(leaderData, last.rel, WithoutLocalEndpoints(data[last.rel]), LocalUnit)

\* _is_ready returned for the three dicts of last.arg
ReadyReturned == last.op = "is_ready"

\* the value the dict d holds under key k, "" when it holds none
ValueOf(d, k) == IF k \in DOMAIN d THEN d[k] ELSE <<>>

\* the three keys of the two dicts hold the same values
ConfigMatches(appdata, reldata) ==
    \A k \in {"database", "roles", "extensions"} : ValueOf(reldata, k) = ValueOf(appdata, k)

\* the str t without the blanks at its two ends
Trimmed(t) ==
    LET inked == {i \in 1..Len(t) : t[i] # " "}
    IN  IF inked = {} THEN <<>>
        ELSE SubSeq(t, CHOOSE i \in inked : \A j \in inked : i <= j,
                       CHOOSE i \in inked : \A j \in inked : j <= i)

\* the set of the trimmed, non-empty items that the commas of the str s separate
Items(s) ==
    {Trimmed(SubSeq(s, i, j)) :
        <<i, j>> \in {x \in (1..Len(s)) \X (1..Len(s)) :
                        /\ x[1] <= x[2]
                        /\ \A n \in x[1]..x[2] : s[n] # ","
                        /\ x[1] = 1 \/ s[x[1] - 1] = ","
                        /\ x[2] = Len(s) \/ s[x[2] + 1] = ","}} \ {<<>>}

\* C16: _is_ready returns False whenever the remote bag and the shared
\* configuration differ in database, roles or extensions, an absent and an
\* empty value being the same, whatever the egress and the allowed subnets are.
C16_UnreadyOnMismatch ==
    (ReadyReturned /\ ~ConfigMatches(last.arg[1].appdata, last.arg[1].reldata)) =>
        ~last.ready

\* C16 witness: the extensions alone differ, the egress subnet is among the
\* allowed ones, and _is_ready returned False.
C16_Witness ==
    /\ ReadyReturned /\ ~last.ready
    /\ ValueOf(last.arg[1].appdata, "database") = ValueOf(last.arg[1].reldata, "database")
    /\ ValueOf(last.arg[1].appdata, "roles") = ValueOf(last.arg[1].reldata, "roles")
    /\ ValueOf(last.arg[1].appdata, "extensions") # ValueOf(last.arg[1].reldata, "extensions")
    /\ ValueOf(last.arg[1].locdata, "egress-subnets") = <<"1">>
    /\ ValueOf(last.arg[1].reldata, "allowed-subnets") = <<"2", ",", "1">>

\* C17: when database, roles and extensions match, _is_ready returns True
\* exactly when every trimmed, non-empty item of the local bag's egress-subnets
\* is an item of the remote bag's allowed-subnets; so it returns True, whatever
\* is allowed, when the local bag holds no or an empty egress-subnets.
C17_ReadyIffEgressAllowed ==
    (ReadyReturned /\ ConfigMatches(last.arg[1].appdata, last.arg[1].reldata)) =>
        /\ last.ready <=>
               Items(ValueOf(last.arg[1].locdata, "egress-subnets"))
                   \subseteq Items(ValueOf(last.arg[1].reldata, "allowed-subnets"))
        /\ ValueOf(last.arg[1].locdata, "egress-subnets") = <<>> => last.ready

\* C17 witness: two egress subnets, written with a blank, are both allowed, in
\* the other order, the database asked for is echoed, and _is_ready returned True.
C17_Witness ==
    /\ ReadyReturned /\ last.ready
    /\ ValueOf(last.arg[1].appdata, "database") = <<"f">>
    /\ ConfigMatches(last.arg[1].appdata, last.arg[1].reldata)
    /\ ValueOf(last.arg[1].locdata, "egress-subnets") = <<"1", ",", " ", "2">>
    /\ ValueOf(last.arg[1].reldata, "allowed-subnets") = <<"2", ",", "1">>

\* the last notification handled ran the mirror: a relation-joined, a processed
\* relation-changed, a leader-elected or a leader-settings-changed
MirrorRan ==
    \/ last.op \in {"joined", "leader_elected", "leader_settings_changed"}
    \/ ChangeProcessed

\* C21: after the leader ran the mirror, for every relation and each of
\* database, roles and extensions the unit bag and the relation's leader data
\* hold the value of the application bag, an absent key being the empty string.
C21_LeaderMirror ==
    (MirrorRan /\ isLeader) =>
        \A r \in DOMAIN data : \A k \in ToSet(ConfigKeys) :
            /\ Held(r, LocalUnit, k) = Held(r, AppOf(LocalUnit), k)
            /\ Shared(r, k) = Held(r, AppOf(LocalUnit), k)

\* C21 witness: the unit was elected leader and its mirror left the database
\* that the leader before it had set in the unit bag and in the leader data.
C21_Witness ==
    /\ last.op = "leader_elected" /\ isLeader
    /\ \E r \in DOMAIN data :
           /\ Held(r, AppOf(LocalUnit), "database") = <<"g">>
           /\ Held(r, LocalUnit, "database") = <<"g">>
           /\ Shared(r, "database") = <<"g">>

\* C22: a mirror run by a unit that is not the leader (on relation-joined, a
\* processed relation-changed, leader-elected, leader-settings-changed, or an
\* upgrade-charm that is not deferred) leaves the leader data and every bag but
\* its unit bags as they were; in the unit bag of each relation, every key of
\* the relation's leader data holds the leader data's value (the empty string
\* being no value) and every other key holds what it held; without leader data
\* for the relation the unit bag is as it was.
C22_FollowerMirror ==
    [][(/\ ~isLeader
        /\ \/ last'.op \in {"joined", "leader_elected", "leader_settings_changed"}
           \/ last'.op = "changed" /\ last'.had
           \/ last'.op = "upgrade_charm" /\ ~last'.retry) =>
          /\ leaderData' = leaderData
          /\ DOMAIN data' = DOMAIN data
          /\ \A r \in DOMAIN data :
                 /\ \A p \in Participants \ {LocalUnit} : data'[r][p] = data[r][p]
                 /\ \A k \in DOMAIN LeaderRecord(leaderData, r) :
                        GetOr(data'[r][LocalUnit], k, <<>>) = LeaderRecord(leaderData, r)[k]
                 /\ \A k \in (DOMAIN data[r][LocalUnit] \cup DOMAIN data'[r][LocalUnit])
                                 \ DOMAIN LeaderRecord(leaderData, r) :
                        /\ k \in DOMAIN data[r][LocalUnit]
                        /\ k \in DOMAIN data'[r][LocalUnit]
                        /\ data'[r][LocalUnit][k] = data[r][LocalUnit][k]
                 /\ r \notin DOMAIN leaderData => data'[r][LocalUnit] = data[r][LocalUnit]
      ]_vars

\* C22 witness: a unit that is not the leader handled leader-settings-changed;
\* its unit bag holds the database of the leader data, its egress subnets, and
\* the unit bag of a relation without leader data holds no database.
C22_Witness ==
    /\ last.op = "leader_settings_changed" /\ ~isLeader
    /\ \E r \in DOMAIN data :
           /\ r \in DOMAIN leaderData
           /\ DOMAIN leaderData[r] = {"database"}
           /\ leaderData[r]["database"] = <<"g">>
           /\ Held(r, LocalUnit, "database") = <<"g">>
           /\ Held(r, LocalUnit, "egress-subnets") # <<>>
    /\ \E r \in DOMAIN data : r \notin DOMAIN leaderData

\* C23: no step removes a relation's record from the leader data, whether the
\* relation is still among the unit's relations or not.
C23_LeaderDataKept ==
    [][DOMAIN leaderData \subseteq DOMAIN leaderData']_vars

\* C24: an upgrade-charm handled by the leader leaves, for every relation and
\* each of database, roles and extensions, the application bag's value where
\* the application bag held the key and the unit bag's value (or no key) where
\* it did not; the unit bags are as they were, and the relation's leader data
\* holds the three keys with the resulting values of the application bag, the
\* empty string for an absent key.
C24_UpgradeMigration ==
    [][(isLeader /\ last'.op = "upgrade_charm") =>
          /\ DOMAIN data' = DOMAIN data
          /\ \A r \in DOMAIN data :
                 /\ \A p \in Participants \ {AppOf(LocalUnit)} : data'[r][p] = data[r][p]
                 /\ \A k \in DOMAIN data[r][AppOf(LocalUnit)] :
                        Get(data'[r][AppOf(LocalUnit)], k) = Some(data[r][AppOf(LocalUnit)][k])
                 /\ \A k \in ToSet(ConfigKeys) \ DOMAIN data[r][AppOf(LocalUnit)] :
                        Get(data'[r][AppOf(LocalUnit)], k) = Get(data[r][LocalUnit], k)
                 /\ DOMAIN data'[r][AppOf(LocalUnit)] \subseteq
                        DOMAIN data[r][AppOf(LocalUnit)] \cup ToSet(ConfigKeys)
                 /\ r \in DOMAIN leaderData'
                 /\ DOMAIN leaderData'[r] = ToSet(ConfigKeys)
                 /\ \A k \in ToSet(ConfigKeys) :
                        leaderData'[r][k] = GetOr(data'[r][AppOf(LocalUnit)], k, <<>>)
      ]_vars

\* C24 witness: the leader handled upgrade-charm with a unit bag that holds a
\* database from before the upgrade and an application bag that holds another:
\* the application bag and the leader data keep the application bag's database.
C24_Witness ==
    /\ last.op = "upgrade_charm" /\ isLeader
    /\ \E r \in DOMAIN data :
           /\ Held(r, LocalUnit, "database") = <<"f">>
           /\ Held(r, AppOf(LocalUnit), "database") = <<"g">>
           /\ Shared(r, "database") = <<"g">>
           /\ Shared(r, "roles") = <<>>

\* C25: an upgrade-charm that the leader handles right after it handled an
\* upgrade-charm leaves every bag and the leader data as the first one left
\* them.
C25_UpgradeIdempotent ==
    [][(isLeader /\ last.op = "upgrade_charm" /\ last'.op = "upgrade_charm") =>
          data' = data /\ leaderData' = leaderData]_vars

\* C25 witness: the leader handled upgrade-charm twice in succession, and the
\* database of the unit bag from before the upgrade is in the application bag
\* and in the leader data.
C25_Witness ==
    /\ last.op = "upgrade_charm" /\ last.again /\ isLeader
    /\ \E r \in DOMAIN data :
           /\ Held(r, LocalUnit, "database") = <<"f">>
           /\ Held(r, AppOf(LocalUnit), "database") = <<"f">>
           /\ Shared(r, "database") = <<"f">>

\* C26: an upgrade-charm handled by a unit that is not the leader never changes
\* an application bag or the leader data; without leader data it is deferred
\* and changes no bag; with leader data it is not deferred and leaves the bags
\* that the mirror of a unit that is not the leader leaves.
C26_FollowerUpgrade ==
    [][(~isLeader /\ last'.op = "upgrade_charm") =>
          /\ leaderData' = leaderData
          /\ DOMAIN data' = DOMAIN data
          /\ \A r \in DOMAIN data :
                 data'[r][AppOf(LocalUnit)] = data[r][AppOf(LocalUnit)]
          /\ leaderData = EmptyDict =>
                 /\ last'.retry
                 /\ deferred'[UpgradeSlot] > 0
                 /\ data' = data
          /\ leaderData # EmptyDict =>
                 /\ ~last'.retry
                 /\ deferred'[UpgradeSlot] <= deferred[UpgradeSlot]
                 /\ data' = _mirror_appdata(LocalUnit, FALSE, data, leaderData).data
      ]_vars

\* C26 witness: a unit that is not the leader handled upgrade-charm with leader
\* data: it is not deferred, and the unit bag holds the database of the leader
\* data.
C26_Witness ==
    /\ last.op = "upgrade_charm" /\ ~isLeader /\ ~last.retry
    /\ deferred[UpgradeSlot] = 0
    /\ \E r \in DOMAIN data :
           /\ Shared(r, "database") = <<"g">>
           /\ Held(r, LocalUnit, "database") = <<"g">>
           /\ Held(r, AppOf(LocalUnit), "database") = <<"g">>

\* the leader data of every relation of the unit holds, for each of database,
\* roles and extensions, the value of the application bag, the empty string for
\* an absent key
LeaderDataCurrent ==
    \A r \in DOMAIN data : \A k \in ToSet(ConfigKeys) :
        Get(LeaderRecord(leaderData, r), k) = Some(Held(r, AppOf(LocalUnit), k))

\* C30: a mirror run by the leader (on relation-joined, a processed
\* relation-changed, leader-elected or leader-settings-changed) when the leader
\* data of every relation already holds the application bag's values leaves
\* the leader data as it was, the records of relations that are gone included.
C30_NoRewrite ==
    [][(/\ isLeader
        /\ LeaderDataCurrent
        /\ \/ last'.op \in {"joined", "leader_elected", "leader_settings_changed"}
           \/ last'.op = "changed" /\ last'.had) =>
          leaderData' = leaderData]_vars

\* C30 witness: the leader ran the mirror on relation-joined; the leader data
\* holds the application bag's values for every relation of the unit and still
\* holds the record of a relation that is gone.
C30_Witness ==
    /\ last.op = "joined" /\ isLeader
    /\ LeaderDataCurrent
    /\ \E r \in DOMAIN leaderData : r \notin DOMAIN data

\* no value of kw holds a blank or a newline
WhitespaceFree(kw) == \A k \in DOMAIN kw : \A i \in 1..Len(kw[k]) : ~IsSpace(kw[k][i])

\* the keys of kw with a value that is not empty, with their values
Given(kw) == [k \in {k \in DOMAIN kw : kw[k] # <<>>} |-> kw[k]]

\* C28: a connection string parsed from the str of one that was built from
\* keyword arguments without whitespace in their values is equal to it, and its
\* attributes are the keyword arguments that are not empty.
C28_RoundTrip ==
    (last.op = "parse" /\ WhitespaceFree(last.arg[1].kw)) =>
        /\ ConnectionStringEq(last.arg[1].parsed, last.arg[1].made)
        /\ last.arg[1].parsed.kw = Given(last.arg[1].kw)

\* C28 witness: the round trip of keyword arguments with a value that holds a
\* backslash and a single quote, and a second key.
C28_Witness ==
    /\ last.op = "parse" /\ WhitespaceFree(last.arg[1].kw)
    /\ <<"a">> \in DOMAIN last.arg[1].kw
    /\ {"\\", "'"} \subseteq ToSet(last.arg[1].kw[<<"a">>])
    /\ Get(last.arg[1].kw, <<"b">>) = Some(<<"b">>)
    /\ last.arg[1].parsed.kw = last.arg[1].kw

\* s begins and ends with a single quote
Wrapped(s) == Len(s) >= 2 /\ s[1] = "'" /\ s[Len(s)] = "'"

\* C29: the str of a connection string built from keyword arguments is its
\* items joined by blanks, each item a key, "=" and a text; the keys are in
\* ascending order, they are the keys with a value that is not empty, and the
\* text of a value that holds a blank is wrapped in single quotes.
C29_Serialized ==
    (last.op \in {"construct", "parse"}) =>
        LET kw == last.arg[1].kw
            items == last.arg[1].items
        IN  /\ last.arg[1].made.conn_str =
                   Join([i \in 1..Len(items) |-> items[i].key \o <<"=">> \o items[i].text], " ")
            /\ \A i, j \in 1..Len(items) : i < j => StrLess(items[i].key, items[j].key)
            /\ {items[i].key : i \in 1..Len(items)} = {k \in DOMAIN kw : kw[k] # <<>>}
            /\ \A i \in 1..Len(items) :
                   " " \in ToSet(kw[items[i].key]) => Wrapped(items[i].text)

\* C29 witness: a connection string built with a value that holds a blank, an
\* empty value and a third key: two items, the first one wrapped.
C29_Witness ==
    /\ last.op = "construct"
    /\ Get(last.arg[1].kw, <<"a">>) = Some(<<"a", " ", "'">>)
    /\ Get(last.arg[1].kw, <<"b">>) = Some(<<>>)
    /\ <<"a", "b">> \in DOMAIN last.arg[1].kw
    /\ Len(last.arg[1].items) = 2
    /\ last.arg[1].items[1].key = <<"a">> /\ Wrapped(last.arg[1].items[1].text)
    /\ last.arg[1].items[2].key = <<"a", "b">>

\* the ConnectionString the master property makes of the optional str o
AsMaster(o) == IF Truthy(o) THEN Some(ConnectionString(o, EmptyDict)) ELSE None

\* the ConnectionStrings the standbys property makes of the list ss
AsStandbys(ss) == [i \in 1..Len(ss) |-> ConnectionString(Some(ss[i]), EmptyDict)]

\* C27: the master and standbys read from an event are what the resolver
\* returns for the data as it is when they are read; read from an event that a
\* relation-changed just emitted they are the master and standbys that the
\* handler resolved.
C27_ReadCurrent ==
    (last.arg # None) =>
        /\ last.arg[1].master =
               AsMaster(_master(leaderData, last.arg[1].rel, data[last.arg[1].rel], LocalUnit))
        /\ last.arg[1].standbys =
               AsStandbys(_standbys(leaderData, last.arg[1].rel, data[last.arg[1].rel], LocalUnit))
        /\ (last.op = "changed" /\ last.rel = last.arg[1].rel /\ emitted # <<>>) =>
               /\ last.arg[1].master = AsMaster(last.new_master)
               /\ last.arg[1].standbys = AsStandbys(last.new_standbys)

\* C27 witness: after a relation-changed stored a master, the remote side
\* published another one; the master read then is the new one, not the one of
\* the relation's record.
C27_Witness ==
    /\ last.op = "none" /\ last.arg # None
    /\ last.arg[1].rel \in DOMAIN rels
    /\ rels[last.arg[1].rel].master = Some(<<"a", "=", "m">>)
    /\ last.arg[1].master # None
    /\ last.arg[1].master[1].conn_str = <<"a", "=", "p">>
    /\ Len(last.arg[1].standbys) = 2

\* the event e is among the events the last notification emitted
Emitted(e) == e \in ToSet(emitted)

\* C33: in every processed relation-changed, master_available or master_gone
\* comes with master_changed, standby_available or standby_gone with
\* standby_changed, and database_available or database_gone with
\* database_changed, whatever the master string is.
C33_Accompanied ==
    ChangeProcessed =>
        /\ (Emitted("master_available") \/ Emitted("master_gone")) => Emitted("master_changed")
        /\ (Emitted("standby_available") \/ Emitted("standby_gone")) => Emitted("standby_changed")
        /\ (Emitted("database_available") \/ Emitted("database_gone")) => Emitted("database_changed")

\* C34: no relation-changed emits both database_available and database_gone.
C34_NotBoth ==
    (last.op = "changed") => ~(Emitted("database_available") /\ Emitted("database_gone"))

\* C34 witness: a relation-changed found the master gone and standbys newly
\* there: it emitted master_gone, standby_available and database_available,
\* and no database_gone.
C34_Witness ==
    /\ ChangeProcessed
    /\ Emitted("master_gone") /\ Emitted("standby_available")
    /\ Emitted("database_available") /\ ~Emitted("database_gone")

\* C35: when a relation-changed or a relation-broken emitted master_gone, the
\* master read from the event while it is handled is None; when it emitted
\* standby_gone, the standbys read are the empty list.
C35_GoneReadsNone ==
    (last.op \in {"changed", "broken"} /\ last.rel \in DOMAIN data) =>
        /\ Emitted("master_gone") => master(last.rel) = None
        /\ Emitted("standby_gone") => standbys(last.rel) = <<>>

\* the records rs hold a master for relation r
MasterOpen(rs, r) == r \in DOMAIN rs /\ rs[r].master # None

\* the records rs hold standbys for relation r
StandbyOpen(rs, r) == r \in DOMAIN rs /\ OrEmpty(rs[r].standbys) # <<>>

\* C32: for every relation, master_available and master_gone alternate,
\* master_available first, and so do standby_available and standby_gone. No
\* record holds a master or standbys at the start; every step emits
\* master_available, once, exactly when the relation's record goes from
\* holding no master (or not being there) to holding one, and master_gone,
\* once, exactly when it goes from holding one to holding none (or not being
\* there); the same for the standbys. So a master_available is unmatched
\* exactly while the record holds a master, and neither event can come twice
\* in a row.
C32_Alternate ==
    [][\A r \in RelIds :
          LET es == IF last'.rel = r /\ last'.op \in {"joined", "changed", "broken"}
                    THEN emitted' ELSE <<>>
          IN  /\ Count(es, "master_available") =
                     (IF ~MasterOpen(rels, r) /\ MasterOpen(rels', r) THEN 1 ELSE 0)
              /\ Count(es, "master_gone") =
                     (IF MasterOpen(rels, r) /\ ~MasterOpen(rels', r) THEN 1 ELSE 0)
              /\ Count(es, "standby_available") =
                     (IF ~StandbyOpen(rels, r) /\ StandbyOpen(rels', r) THEN 1 ELSE 0)
              /\ Count(es, "standby_gone") =
                     (IF StandbyOpen(rels, r) /\ ~StandbyOpen(rels', r) THEN 1 ELSE 0)
      ]_vars

\* C32 witness: a relation-broken emitted master_gone and standby_gone for the
\* master and the standbys of the record, which is gone with it.
C32_Witness ==
    /\ last.op = "broken" /\ last.had
    /\ last.prev_master # None /\ last.prev_standbys # <<>>
    /\ Emitted("master_gone") /\ Emitted("standby_gone")
    /\ last.rel \notin DOMAIN rels

\* the last notification was a relation-changed of relation r that was
\* processed and not deferred: it emitted the events for the data as it is and
\* the record holds the master and standbys resolved from it
ProcessedNow(r) ==
    /\ ChangeProcessed /\ last.rel = r /\ ~last.retry
    /\ r \in DOMAIN rels
    /\ rels[r] = StoredRecord(_master(leaderData, r, data[r], LocalUnit),
                              _standbys(leaderData, r, data[r], LocalUnit))
    /\ emitted = ChangedEvents(last.prev_master, last.prev_standbys,
                               _master(leaderData, r, data[r], LocalUnit),
                               _standbys(leaderData, r, data[r], LocalUnit))

C36_LeaderDataIsAppBag ==
    isLeader =>
        \A r \in DOMAIN data : \A k \in ToSet(ConfigKeys) :
            Shared(r, k) = Held(r, AppOf(LocalUnit), k)

\* C36 witness: the leader handled upgrade-charm after its setters had stored a
\* database and roles; the leader data and the application bag hold both.
C36_Witness ==
    /\ isLeader /\ last.op = "upgrade_charm"
    /\ \E r \in DOMAIN data :
           /\ Shared(r, "database") = <<"f">>
           /\ Held(r, AppOf(LocalUnit), "database") = <<"f">>
           /\ Shared(r, "roles") = <<"a">>
           /\ Held(r, AppOf(LocalUnit), "roles") = <<"a">>
           /\ "extensions" \in DOMAIN LeaderRecord(leaderData, r)
           /\ "extensions" \notin DOMAIN data[r][AppOf(LocalUnit)]

\* bag b holds under every key but key what bag a holds
SameBut(a, b, key) ==
    \A j \in ((DOMAIN a) \cup (DOMAIN b)) \ {key} : Get(a, j) = Get(b, j)

\* C37: a setter of database, roles or extensions run by the leader on relation
\* r changes that key only: the other keys of r's leader data and the leader
\* data of every other relation, the other keys of r's application bag and unit
\* bag, the other bags of r, the bags of the other relations and the stored
\* records of the relations are as they were.
C37_SetterFrame ==
    [][(last'.op \in {"database", "roles", "extensions"} /\ isLeader) =>
          LET r == last'.rel
              k == last'.op
          IN  /\ DOMAIN leaderData' = (DOMAIN leaderData) \cup {r}
              /\ \A x \in (DOMAIN leaderData) \ {r} : leaderData'[x] = leaderData[x]
              /\ SameBut(LeaderRecord(leaderData, r), leaderData'[r], k)
              /\ DOMAIN data' = DOMAIN data
              /\ \A x \in (DOMAIN data) \ {r} : data'[x] = data[x]
              /\ \A p \in Participants \ {LocalUnit, AppOf(LocalUnit)} :
                     data'[r][p] = data[r][p]
              /\ SameBut(data[r][LocalUnit], data'[r][LocalUnit], k)
              /\ SameBut(data[r][AppOf(LocalUnit)], data'[r][AppOf(LocalUnit)], k)
              /\ rels' = rels
              /\ isLeader' = isLeader
      ]_vars

\* C37 witness: the leader set the roles of a relation whose leader data holds
\* a database, while another relation has leader data and a stored record.
C37_Witness ==
    /\ last.op = "roles" /\ isLeader /\ ~last.error
    /\ last.arg # None
    /\ Shared(last.rel, "database") = <<"f">>
    /\ Shared(last.rel, "roles") = <<"a">>
    /\ \E x \in (DOMAIN leaderData) \ {last.rel} : x \in DOMAIN rels

\* C38: a unit that is not the leader and handles upgrade-charm right after the
\* leader handled it does not defer it, whatever the relations of the
\* application, none among them.
C38_UpgradeNotDeferred ==
    [][(last.op = "peer_upgrade_charm" /\ last'.op = "upgrade_charm" /\ ~isLeader)
           => ~last'.retry]_vars

WithoutLocalApp(r) == [data[r] EXCEPT ![AppOf(LocalUnit)] = EmptyDict]

\* C40: the master and the standbys resolved are a function of the leader data,
\* the local unit bag and the remote bags: whether the unit is the leader or
\* not and whatever the local application bag holds, they are what is resolved
\* from the same leader data and bags with an empty local application bag.
C40_LeaderBlind ==
    /\ (last.op = "master" /\ last.rel \in DOMAIN data) =>
           last.new_master =
               _master(leaderData, last.rel, WithoutLocalApp(last.rel), LocalUnit)
    /\ (last.op = "standbys" /\ last.rel \in DOMAIN data) =>
           last.new_standbys =
               _standbys(leaderData, last.rel, WithoutLocalApp(last.rel), LocalUnit)

\* C40 witness: the leader resolved the master of a remote bag while its own
\* application bag holds a master too and no database, the leader data holding
\* the database that the remote bag echoes.
C40_Witness ==
    /\ last.op = "master" /\ isLeader
    /\ last.new_master = Some(<<"m">>)
    /\ Get(data[last.rel][AppOf(LocalUnit)], "master") = Some(<<"k">>)
    /\ "database" \notin DOMAIN data[last.rel][AppOf(LocalUnit)]
    /\ Shared(last.rel, "database") = <<"f">>

====
